---------------------------- MODULE Spec2Model ----------------------------
(***************************************************************************)
(* Newborn progress tracking: the analytics engine (app/services/          *)
(* analytics.py) and the progress / babies endpoints that store its        *)
(* results.  Floats are modelled as exact rationals <<n, d>> with d > 0,   *)
(* Python's None as the empty tuple, and a raised exception as a result    *)
(* record whose err field names the exception.                             *)
(***************************************************************************)
EXTENDS Integers, Sequences, FiniteSets, TLC

VARIABLES babies, progress, nextBabyId, nextProgressId, now, last, probe,
          media, objects, nextMediaId

vars == <<babies, progress, nextBabyId, nextProgressId, now, last, probe,
          media, objects, nextMediaId>>

-----------------------------------------------------------------------------
(* Optional values and exact arithmetic                                    *)

None == <<>>

Some(x) == <<x>>

IsNone(x) == x = <<>>

Abs(i) == IF i < 0 THEN -i ELSE i

RECURSIVE Gcd(_, _)
Gcd(a, b) == IF b = 0 THEN a ELSE Gcd(b, a % b)

\* the rational n/d in lowest terms with a positive denominator
R(n, d) ==
    LET s == IF d < 0 THEN -1 ELSE 1
        g == Gcd(Abs(n), Abs(d))
    IN  <<(s * n) \div g, (s * d) \div g>>

Num(i) == <<i, 1>>

RAdd(a, b) == R(a[1] * b[2] + b[1] * a[2], a[2] * b[2])

RSub(a, b) == R(a[1] * b[2] - b[1] * a[2], a[2] * b[2])

RMul(a, b) == R(a[1] * b[1], a[2] * b[2])

\* a / b for b # 0
RDiv(a, b) == R(a[1] * b[2], a[2] * b[1])

RLe(a, b) == a[1] * b[2] <= b[1] * a[2]

RLt(a, b) == a[1] * b[2] < b[1] * a[2]

RMin(a, b) == IF RLe(a, b) THEN a ELSE b

RMax(a, b) == IF RLe(a, b) THEN b ELSE a

RAbs(a) == <<Abs(a[1]), a[2]>>

RECURSIVE RSum(_)
RSum(s) == IF Len(s) = 0 THEN Num(0) ELSE RAdd(s[1], RSum(Tail(s)))

SetMin(S) == CHOOSE x \in S : \A y \in S : x <= y

\* a result of a call: a value, or the exception it raised
Ok(v) == [err |-> "none", val |-> v]

Raise(e) == [err |-> e, val |-> None]

Pending == [err |-> "pending", val |-> None]

-----------------------------------------------------------------------------
(* Percentile interpolator                                                 *)

DefaultLadder == <<Num(3), Num(15), Num(50), Num(85), Num(97)>>

interpolate_percentile_top_extrapolates(value, standards, percentiles) ==
    LET n == Len(standards)
        brackets == {i \in 1..(n - 1) :
                        RLe(standards[i], value) /\ RLt(value, standards[i + 1])}
    IN  IF RLe(value, standards[1])
        THEN IF standards[1][1] = 0
             THEN Raise("ZeroDivisionError")
             ELSE Ok(RMul(percentiles[1], RDiv(value, standards[1])))
        ELSE IF brackets # {}
        THEN LET i == SetMin(brackets)
                 range_percent == RDiv(RSub(value, standards[i]),
                                       RSub(standards[i + 1], standards[i]))
             IN  Ok(RAdd(percentiles[i],
                         RMul(range_percent, RSub(percentiles[i + 1], percentiles[i]))))
        ELSE Ok(RMul(percentiles[Len(percentiles)], RDiv(value, standards[n])))

interpolate_percentile_bracket_above(value, standards, percentiles) ==
    LET n == Len(standards)
        brackets == {i \in 1..(n - 1) :
                        RLt(standards[i], value) /\ RLe(value, standards[i + 1])}
    IN  IF RLe(value, standards[1])
        THEN IF standards[1][1] = 0
             THEN Raise("ZeroDivisionError")
             ELSE Ok(RMul(percentiles[1], RDiv(value, standards[1])))
        ELSE IF RLe(standards[n], value)
        THEN Ok(percentiles[Len(percentiles)])
        ELSE IF brackets = {}
        THEN Ok(percentiles[Len(percentiles)])
        ELSE LET i == SetMin(brackets)
                 range_percent == RDiv(RSub(value, standards[i]),
                                       RSub(standards[i + 1], standards[i]))
             IN  Ok(RAdd(percentiles[i],
                         RMul(range_percent, RSub(percentiles[i + 1], percentiles[i]))))

interpolate_percentile(value, standards, percentiles) ==
    LET n == Len(standards)
        \* the loop returns at the first i with standards[i] <= value < standards[i+1]
        brackets == {i \in 1..(n - 1) :
                        RLe(standards[i], value) /\ RLt(value, standards[i + 1])}
    IN  IF RLe(value, standards[1])
        THEN IF standards[1][1] = 0
             THEN Raise("ZeroDivisionError")
             ELSE Ok(RMul(percentiles[1], RDiv(value, standards[1])))
        ELSE IF RLe(standards[n], value)
        THEN Ok(percentiles[Len(percentiles)])
        ELSE IF brackets = {}
        THEN Ok(percentiles[Len(percentiles)])
        ELSE LET i == SetMin(brackets)
                 range_percent == RDiv(RSub(value, standards[i]),
                                       RSub(standards[i + 1], standards[i]))
             IN  Ok(RAdd(percentiles[i],
                         RMul(range_percent, RSub(percentiles[i + 1], percentiles[i]))))

-----------------------------------------------------------------------------
(* Dates <<year, month, day>> and the age rule                             *)

Year(d) == d[1]

Month(d) == d[2]

Day(d) == d[3]

\* the month difference with no floor at 0
calculate_age_in_months_unfloored(birth_date, reference_date) ==
    LET months == (Year(reference_date) - Year(birth_date)) * 12
                  + (Month(reference_date) - Month(birth_date))
    IN  IF Day(reference_date) < Day(birth_date) THEN months - 1 ELSE months

calculate_age_in_months(birth_date, reference_date) ==
    LET months == (Year(reference_date) - Year(birth_date)) * 12
                  + (Month(reference_date) - Month(birth_date))
        adjusted == IF Day(reference_date) < Day(birth_date) THEN months - 1 ELSE months
    IN  IF adjusted < 0 THEN 0 ELSE adjusted

-----------------------------------------------------------------------------
(* Reference standards: gender -> age in months -> [P3, P15, P50, P85, P97] *)

WHO_WEIGHT_FOR_AGE ==
    [male |->
        (0 :> <<R(25, 10), R(29, 10), R(33, 10), R(37, 10), R(40, 10)>>) @@
        (1 :> <<R(34, 10), R(39, 10), R(45, 10), R(51, 10), R(55, 10)>>) @@
        (2 :> <<R(43, 10), R(49, 10), R(56, 10), R(63, 10), R(68, 10)>>) @@
        (3 :> <<R(50, 10), R(57, 10), R(64, 10), R(72, 10), R(78, 10)>>),
     female |->
        (0 :> <<R(24, 10), R(28, 10), R(32, 10), R(36, 10), R(39, 10)>>) @@
        (1 :> <<R(32, 10), R(36, 10), R(42, 10), R(48, 10), R(52, 10)>>) @@
        (2 :> <<R(39, 10), R(45, 10), R(51, 10), R(58, 10), R(62, 10)>>) @@
        (3 :> <<R(45, 10), R(52, 10), R(58, 10), R(66, 10), R(71, 10)>>)]

WHO_HEIGHT_FOR_AGE ==
    [male |->
        (0 :> <<R(461, 10), R(480, 10), R(499, 10), R(518, 10), R(534, 10)>>) @@
        (1 :> <<R(508, 10), R(528, 10), R(547, 10), R(567, 10), R(584, 10)>>),
     female |->
        (0 :> <<R(454, 10), R(473, 10), R(491, 10), R(510, 10), R(527, 10)>>) @@
        (1 :> <<R(498, 10), R(517, 10), R(537, 10), R(556, 10), R(574, 10)>>)]

WHO_HEAD_CIRCUMFERENCE_FOR_AGE ==
    [male |->
        (0 :> <<R(324, 10), R(336, 10), R(345, 10), R(354, 10), R(361, 10)>>),
     female |->
        (0 :> <<R(319, 10), R(330, 10), R(339, 10), R(348, 10), R(355, 10)>>)]

-----------------------------------------------------------------------------
(* Growth scorer                                                           *)

\* str.lower() on the strings the model uses
Lower(s) ==
    CASE s = "Female" -> "female"
      [] s = "FEMALE" -> "female"
      [] s = "Male"   -> "male"
      [] s = "MALE"   -> "male"
      [] s = "Other"  -> "other"
      [] s = "Laughs" -> "laughs"
      [] OTHER        -> s

\* baby.gender.lower() if baby.gender else "male": None and "" are falsy
ResolveGender(gender) ==
    IF IsNone(gender) \/ gender = Some("") THEN "male" ELSE Lower(gender[1])

\* min(keys, key=lambda m: abs(m - age_months)): the first minimum in key order
ClosestMonth(months, age_months) ==
    SetMin({m \in months : \A k \in months : Abs(m - age_months) <= Abs(k - age_months)})

GrowthOk(w, h, c, overall) ==
    [err |-> "none", val |-> overall,
     weight_percentile |-> w, height_percentile |-> h, head_percentile |-> c]

GrowthRaise(e) ==
    [err |-> e, val |-> None,
     weight_percentile |-> None, height_percentile |-> None, head_percentile |-> None]

\* one measurement against its table: None when not supplied
SubPercentile(table, gender, closest_month, measurement) ==
    IF IsNone(measurement) THEN Ok(None)
    ELSE IF closest_month \notin DOMAIN table[gender] THEN Raise("KeyError")
    ELSE interpolate_percentile(measurement, table[gender][closest_month], DefaultLadder)

\* the sub-percentiles that were computed
RECURSIVE Given(_)
Given(subs) ==
    IF subs = <<>> THEN <<>>
    ELSE (IF IsNone(Head(subs)) THEN <<>> ELSE <<Head(subs)>>) \o Given(Tail(subs))

\* a mean over the three measurements, supplied or not
OverallPercentile_over_all_three(subs) ==
    LET given == Given(subs)
    IN  IF given = <<>> THEN Num(50) ELSE RDiv(RSum(given), Num(Len(subs)))

\* sum(result.values()) / len(result), or 50.0 for an empty result
OverallPercentile(subs) ==
    LET given == Given(subs)
    IN  IF given = <<>> THEN Num(50) ELSE RDiv(RSum(given), Num(Len(given)))

calculate_growth_percentile(baby, weight, height, head_circumference, record_date) ==
    LET gender == ResolveGender(baby.gender)
        age_months == calculate_age_in_months(baby.date_of_birth, record_date)
    IN  IF gender \notin DOMAIN WHO_WEIGHT_FOR_AGE THEN GrowthRaise("KeyError")
        ELSE
        LET closest_month == ClosestMonth(DOMAIN WHO_WEIGHT_FOR_AGE[gender], age_months)
            w == SubPercentile(WHO_WEIGHT_FOR_AGE, gender, closest_month, weight)
            h == SubPercentile(WHO_HEIGHT_FOR_AGE, gender, closest_month, height)
            c == SubPercentile(WHO_HEAD_CIRCUMFERENCE_FOR_AGE, gender, closest_month,
                               head_circumference)
        IN  IF w.err # "none" THEN GrowthRaise(w.err)
            ELSE IF h.err # "none" THEN GrowthRaise(h.err)
            ELSE IF c.err # "none" THEN GrowthRaise(c.err)
            ELSE GrowthOk(w.val, h.val, c.val, OverallPercentile(<<w.val, h.val, c.val>>))

-----------------------------------------------------------------------------
(* Sleep quality scorer.  A datetime is its minutes since a midnight and    *)
(* whether it carries a UTC offset.                                        *)

Naive(m) == [at |-> m, aware |-> FALSE]

Aware(m) == [at |-> m, aware |-> TRUE]

\* subtracting or ordering an aware and a naive datetime raises TypeError
Comparable(a, b) == a.aware = b.aware

Hour(t) == (t.at \div 60) % 24

\* list.sort(key=start): stable, so equal starts keep their input order
RECURSIVE SortByStart(_)
SortByStart(s) ==
    IF s = <<>> THEN <<>>
    ELSE LET rest == SortByStart(SubSeq(s, 1, Len(s) - 1))
             x    == s[Len(s)]
             k    == Cardinality({i \in 1..Len(rest) : rest[i].start <= x.start})
         IN  SubSeq(rest, 1, k) \o <<x>> \o SubSeq(rest, k + 1, Len(rest))

QualityWeight(quality) ==
    IF quality = Some("good") THEN Num(1)
    ELSE IF quality = Some("fair") THEN R(7, 10)
    ELSE R(4, 10)

\* session.get("quality", "good"): a session with no quality key counts as good,
\* one whose quality is None keeps None
QualityOf(session) ==
    IF "quality" \in DOMAIN session THEN session.quality ELSE Some("good")

\* a conversion that takes the time of evaluation as the end of every session
SleepSessionOf_ends_now(session, clock) ==
    [start    |-> session.start_time.at,
     end      |-> clock,
     duration |-> clock - session.start_time.at,
     is_night |-> (20 <= Hour(session.start_time) \/ Hour(session.start_time) <= 6),
     quality  |-> QualityOf(session)]

\* an absent end is datetime.now(), a naive datetime read when the session is
\* converted
SleepEnd(session, clock) ==
    IF IsNone(session.end_time) THEN Naive(clock) ELSE session.end_time[1]

SleepSessionOf(session, clock) ==
    LET end == SleepEnd(session, clock)
    IN  [start    |-> session.start_time.at,
         end      |-> end.at,
         duration |-> end.at - session.start_time.at,
         is_night |-> (20 <= Hour(session.start_time) \/ Hour(session.start_time) <= 6),
         quality  |-> QualityOf(session)]

Clamp0To100(score) == RMin(Num(100), RMax(Num(0), score))

SleepRawScore(sleep_schedule, clock) ==
    LET converted == [k \in 1..Len(sleep_schedule) |->
                         SleepSessionOf(sleep_schedule[k], clock)]
        total_sleep_minutes == RSum([k \in 1..Len(converted) |-> Num(converted[k].duration)])
        night_sleep_minutes ==
            RSum([k \in 1..Len(converted) |->
                     IF converted[k].is_night THEN Num(converted[k].duration) ELSE Num(0)])
        sessions == SortByStart(converted)
        total_interruptions ==
            Cardinality({i \in 1..(Len(sessions) - 1) :
                            sessions[i + 1].start - sessions[i].end < 30})
        hours_slept == RDiv(total_sleep_minutes, Num(60))
        night_sleep_ratio == IF RLt(Num(0), total_sleep_minutes)
                             THEN RDiv(night_sleep_minutes, total_sleep_minutes)
                             ELSE Num(0)
        quality_factor == RDiv(RSum([k \in 1..Len(sessions) |->
                                        QualityWeight(sessions[k].quality)]),
                               Num(Len(sessions)))
        interruption_factor == RMax(R(1, 2), RSub(Num(1), R(total_interruptions, 10)))
        duration_score == RMin(Num(100), RMul(RDiv(hours_slept, Num(14)), Num(100)))
        night_ratio_score == RMul(night_sleep_ratio, Num(100))
        continuity_score == RMul(RMul(quality_factor, interruption_factor), Num(100))
    IN  RAdd(RAdd(RMul(duration_score, R(4, 10)), RMul(night_ratio_score, R(3, 10))),
             RMul(continuity_score, R(3, 10)))

\* end - start, the sort by start and next.start - this.end all raise on an
\* aware and a naive datetime
MixedSleepTimes(sleep_schedule, clock) ==
    \/ \E i \in 1..Len(sleep_schedule) :
          ~Comparable(SleepEnd(sleep_schedule[i], clock), sleep_schedule[i].start_time)
    \/ \E i, j \in 1..Len(sleep_schedule) :
          ~Comparable(sleep_schedule[i].start_time, sleep_schedule[j].start_time)

calculate_sleep_quality_index(sleep_schedule, clock) ==
    IF sleep_schedule = <<>> THEN Ok(Num(50))
    ELSE IF MixedSleepTimes(sleep_schedule, clock) THEN Raise("TypeError")
    ELSE Ok(Clamp0To100(SleepRawScore(sleep_schedule, clock)))

-----------------------------------------------------------------------------
(* Feeding efficiency scorer                                               *)

ExpectedFeedsPerDay(baby_age_months) ==
    IF baby_age_months < 1 THEN Num(8)
    ELSE IF baby_age_months < 3 THEN Num(7)
    ELSE IF baby_age_months < 6 THEN Num(6)
    ELSE Num(5)

ExpectedFeedInterval(baby_age_months) ==
    IF baby_age_months < 1 THEN Num(2)
    ELSE IF baby_age_months < 3 THEN Num(3)
    ELSE IF baby_age_months < 6 THEN R(7, 2)
    ELSE Num(4)

FeedOf(feed) ==
    [start    |-> feed.start_time.at,
     duration |-> IF IsNone(feed.end_time) THEN 15
                  ELSE feed.end_time[1].at - feed.start_time.at,
     type     |-> feed.type]

IntervalRegularity(feeds, expected_feed_interval) ==
    LET intervals == [i \in 1..(Len(feeds) - 1) |->
                         R(feeds[i + 1].start - feeds[i].start, 60)]
        deviations == [i \in 1..Len(intervals) |->
                          RAbs(RSub(intervals[i], expected_feed_interval))]
    IN  IF Len(intervals) = 0 THEN Num(0)
        ELSE RMax(Num(0), RSub(Num(1), RDiv(RDiv(RSum(deviations), Num(Len(deviations))),
                                            expected_feed_interval)))

FeedFrequencyScore(feeds, expected_feeds_per_day) ==
    IF Len(feeds) >= 2
    THEN LET time_span == R(feeds[Len(feeds)].start - feeds[1].start, 60)
         IN  IF RLe(Num(12), time_span)
             THEN LET feeds_per_day == RMul(RDiv(Num(Len(feeds)), time_span), Num(24))
                  IN  RSub(Num(1),
                           RMin(Num(1), RDiv(RAbs(RSub(feeds_per_day, expected_feeds_per_day)),
                                             expected_feeds_per_day)))
             ELSE R(7, 10)
    ELSE R(7, 10)

\* [f for f in feeds if f.get("type") == type]
RECURSIVE FeedsOfType(_, _)
FeedsOfType(feeds, type) ==
    IF feeds = <<>> THEN <<>>
    ELSE (IF Head(feeds).type = type THEN <<Head(feeds)>> ELSE <<>>)
         \o FeedsOfType(Tail(feeds), type)

\* 1 - min(1, |mean duration - target| / target) over the feeds of one type
TypeDurationScore(typed, target) ==
    IF typed = <<>> THEN R(7, 10)
    ELSE LET avg == RDiv(RSum([k \in 1..Len(typed) |-> Num(typed[k].duration)]),
                         Num(Len(typed)))
         IN  RSub(Num(1), RMin(Num(1), RDiv(RAbs(RSub(avg, Num(target))), Num(target))))

FeedDurationScore(feeds) ==
    LET bottle_feeds == FeedsOfType(feeds, "bottle")
        breast_feeds == FeedsOfType(feeds, "breast")
        bottle_score == TypeDurationScore(bottle_feeds, 15)
        breast_score == TypeDurationScore(breast_feeds, 25)
    IN  IF bottle_feeds # <<>> /\ breast_feeds # <<>>
        THEN RDiv(RAdd(bottle_score, breast_score), Num(2))
        ELSE IF bottle_feeds # <<>> THEN bottle_score
        ELSE IF breast_feeds # <<>> THEN breast_score
        ELSE R(7, 10)

FeedingRawScore(feeding_times, baby_age_months) ==
    LET feeds == SortByStart([k \in 1..Len(feeding_times) |-> FeedOf(feeding_times[k])])
    IN  RMul(RAdd(RAdd(RMul(IntervalRegularity(feeds, ExpectedFeedInterval(baby_age_months)),
                            R(4, 10)),
                       RMul(FeedFrequencyScore(feeds, ExpectedFeedsPerDay(baby_age_months)),
                            R(3, 10))),
                  RMul(FeedDurationScore(feeds), R(3, 10))),
             Num(100))

\* end - start, the sort by start and the start-to-start intervals all raise on
\* an aware and a naive datetime
MixedFeedTimes(feeding_times) ==
    \/ \E i \in 1..Len(feeding_times) :
          /\ ~IsNone(feeding_times[i].end_time)
          /\ ~Comparable(feeding_times[i].end_time[1], feeding_times[i].start_time)
    \/ \E i, j \in 1..Len(feeding_times) :
          ~Comparable(feeding_times[i].start_time, feeding_times[j].start_time)

calculate_feeding_efficiency(feeding_times, baby_age_months) ==
    IF feeding_times = <<>> THEN Ok(Num(50))
    ELSE IF MixedFeedTimes(feeding_times) THEN Raise("TypeError")
    ELSE Ok(Clamp0To100(FeedingRawScore(feeding_times, baby_age_months)))

-----------------------------------------------------------------------------
(* Developmental scorer.  A label is its sequence of words; on the labels  *)
(* the model uses, containment of word sequences is Python's substring     *)
(* test on the strings.                                                    *)

expected_milestones ==
    (1 :> << <<"responds", "to", "sounds">>, <<"follows", "objects", "with", "eyes">>,
             <<"lifts", "head", "briefly">> >>) @@
    (2 :> << <<"holds", "head", "up">>, <<"begins", "to", "smile">>,
             <<"coos", "and", "makes", "sounds">> >>) @@
    (3 :> << <<"recognizes", "faces">>, <<"reaches", "for", "objects">>, <<"laughs">> >>) @@
    (4 :> << <<"rolls", "over">>, <<"holds", "head", "steady">>,
             <<"pushes", "up", "on", "arms">> >>)

\* str.lower() on a label
LowerLabel(label) == [k \in 1..Len(label) |-> Lower(label[k])]

\* a in b: a occurs in b as a contiguous run
In(a, b) ==
    \E i \in 0..(Len(b) - Len(a)) : \A j \in 1..Len(a) : b[i + j] = a[j]

\* containment in one direction only
FuzzyMatch_one_way(a, b) == In(a, b)

FuzzyMatch(a, b) == In(a, b) \/ In(b, a)

RECURSIVE Flatten(_)
Flatten(ss) == IF ss = <<>> THEN <<>> ELSE Head(ss) \o Flatten(Tail(ss))

\* the catalog's months in the dict's order
CatalogMonths == <<1, 2, 3, 4>>

AllExpected(baby_age_months) ==
    Flatten([k \in 1..Len(CatalogMonths) |->
                IF CatalogMonths[k] <= baby_age_months
                THEN expected_milestones[CatalogMonths[k]] ELSE <<>>])

\* the first catalog month holding a label that matches; 0 when none does
FirstMatchingMonth(label) ==
    LET hits == {m \in DOMAIN expected_milestones :
                    \E k \in 1..Len(expected_milestones[m]) :
                        FuzzyMatch(LowerLabel(label), expected_milestones[m][k])}
    IN  IF hits = {} THEN 0 ELSE SetMin(hits)

\* a bonus also for a milestone reached in its catalog month
EarlyBonus_in_or_before_month(milestone, baby) ==
    IF IsNone(milestone.achieved_date) THEN 0
    ELSE LET month == FirstMatchingMonth(milestone.milestone)
         IN  IF month # 0 /\
                calculate_age_in_months(baby.date_of_birth, milestone.achieved_date[1]) <= month
             THEN 5 ELSE 0

EarlyBonus(milestone, baby) ==
    IF IsNone(milestone.achieved_date) THEN 0
    ELSE LET month == FirstMatchingMonth(milestone.milestone)
         IN  IF month # 0 /\
                calculate_age_in_months(baby.date_of_birth, milestone.achieved_date[1]) < month
             THEN 5 ELSE 0

DevelopmentalRawScore(milestones, baby_age_months, baby) ==
    LET all_expected == AllExpected(baby_age_months)
        achieved == [k \in 1..Len(milestones) |-> LowerLabel(milestones[k].milestone)]
        matched == Cardinality({e \in 1..Len(all_expected) :
                       \E a \in 1..Len(achieved) : FuzzyMatch(all_expected[e], achieved[a])})
        base_score == RMul(R(matched, Len(all_expected)), Num(100))
        bonus == RSum([k \in 1..Len(milestones) |-> Num(EarlyBonus(milestones[k], baby))])
    IN  RAdd(base_score, bonus)

\* a scorer that tests the age before it tests for an empty list
calculate_developmental_score_young_first(milestones, baby_age_months, baby) ==
    IF AllExpected(baby_age_months) = <<>> THEN Num(70)
    ELSE IF milestones = <<>> THEN Num(50)
    ELSE RMin(Num(100), DevelopmentalRawScore(milestones, baby_age_months, baby))

\* a scorer that adds the early-achievement bonus to the too-young default
calculate_developmental_score_young_bonus(milestones, baby_age_months, baby) ==
    IF milestones = <<>> THEN Num(50)
    ELSE IF AllExpected(baby_age_months) = <<>>
    THEN RMin(Num(100),
              RAdd(Num(70), RSum([k \in 1..Len(milestones) |->
                                     Num(EarlyBonus(milestones[k], baby))])))
    ELSE RMin(Num(100), DevelopmentalRawScore(milestones, baby_age_months, baby))

calculate_developmental_score(milestones, baby_age_months, baby) ==
    IF milestones = <<>> THEN Num(50)
    ELSE IF AllExpected(baby_age_months) = <<>> THEN Num(70)
    ELSE RMin(Num(100), DevelopmentalRawScore(milestones, baby_age_months, baby))

-----------------------------------------------------------------------------
(* Record processor                                                        *)

\* the four derived fields of a record
Derived(p) == <<p.growth_percentile, p.sleep_quality_index, p.feeding_efficiency,
                p.developmental_score>>

\* a scorer the pass does not call: the input it scores is absent
Skipped == [err |-> "skipped", val |-> None]

\* the assignments of a pass: the first scorer that raises ends the pass, and a
\* field whose scorer was not called keeps the value it had
Assigned(p, growth, sleep, feeding, developmental) ==
    IF growth.err \notin {"none", "skipped"} THEN Raise(growth.err)
    ELSE IF sleep.err \notin {"none", "skipped"} THEN Raise(sleep.err)
    ELSE IF feeding.err \notin {"none", "skipped"} THEN Raise(feeding.err)
    ELSE Ok([p EXCEPT
            !.growth_percentile = IF growth.err = "none" THEN growth.val ELSE @,
            !.sleep_quality_index = IF sleep.err = "none" THEN sleep.val ELSE @,
            !.feeding_efficiency = IF feeding.err = "none" THEN feeding.val ELSE @,
            !.developmental_score =
                IF developmental.err = "none" THEN developmental.val ELSE @])

\* None and [] are both falsy where the lists are tested, and both are <<>> here
process_baby_progress(p, baby, clock) ==
    Assigned(p,
        IF ~IsNone(p.weight) \/ ~IsNone(p.height) \/ ~IsNone(p.head_circumference)
        THEN calculate_growth_percentile(baby, p.weight, p.height,
                                         p.head_circumference, p.record_date)
        ELSE Skipped,
        IF p.sleep_schedule # <<>>
        THEN calculate_sleep_quality_index(p.sleep_schedule, clock)
        ELSE Skipped,
        IF p.feeding_times # <<>>
        THEN calculate_feeding_efficiency(p.feeding_times,
                 calculate_age_in_months(baby.date_of_birth, p.record_date))
        ELSE Skipped,
        IF p.milestones # <<>>
        THEN Ok(calculate_developmental_score(p.milestones,
                    calculate_age_in_months(baby.date_of_birth, p.record_date), baby))
        ELSE Skipped)

-----------------------------------------------------------------------------
(* The stored state and the endpoints.  babies and progress map serial ids *)
(* to rows; last is the outcome of the last request served.                *)

MaxBabyId == 1

MaxProgressId == 2

EmptyStore ==
    /\ babies = <<>>
    /\ progress = <<>>
    /\ nextBabyId = 1
    /\ nextProgressId = 1
    /\ media = <<>>
    /\ objects = {}
    /\ nextMediaId = 1
    /\ last = [op |-> "none", id |-> 0, err |-> "none", changed |-> {}]

StoreUnchanged ==
    UNCHANGED <<babies, progress, nextBabyId, nextProgressId, now, last,
                media, objects, nextMediaId>>

Without(f, ids) == [i \in DOMAIN f \ ids |-> f[i]]

\* setattr(row, field, value) for every field the request sets
Patched(row, update_data) ==
    [f \in DOMAIN row |-> IF f \in DOMAIN update_data THEN update_data[f] ELSE row[f]]

\* a request that raised: the session is closed uncommitted, nothing is stored
Failed(op, id, err) ==
    /\ last' = [op |-> op, id |-> id, err |-> err, changed |-> {}]
    /\ UNCHANGED <<babies, progress, nextBabyId, nextProgressId, now, media, objects, nextMediaId>>

Served(op, id, changed) == last' = [op |-> op, id |-> id, err |-> "none", changed |-> changed]

\* an ownership check that only looks for the baby
Owns_any_parent(user, baby_id) == baby_id \in DOMAIN babies

Owns(user, baby_id) == baby_id \in DOMAIN babies /\ babies[baby_id].parent_id = user

create_baby(user, baby_in) ==
    /\ nextBabyId <= MaxBabyId
    /\ babies' = babies @@ (nextBabyId :>
                    [parent_id |-> user, date_of_birth |-> baby_in.date_of_birth,
                     gender |-> baby_in.gender])
    /\ nextBabyId' = nextBabyId + 1
    /\ Served("create_baby", nextBabyId, {})
    /\ UNCHANGED <<progress, nextProgressId, now, media, objects, nextMediaId>>

update_baby(user, baby_id, update_data) ==
    IF ~Owns(user, baby_id) THEN Failed("update_baby", baby_id, "404")
    ELSE /\ babies' = [babies EXCEPT ![baby_id] = Patched(@, update_data)]
         /\ Served("update_baby", baby_id, DOMAIN update_data)
         /\ UNCHANGED <<progress, nextBabyId, nextProgressId, now, media, objects, nextMediaId>>

\* the progress rows and the media rows of the baby go with it (cascade="all,
\* delete-orphan"); the object store is not called
delete_baby(user, baby_id) ==
    IF ~Owns(user, baby_id) THEN Failed("delete_baby", baby_id, "404")
    ELSE /\ babies' = Without(babies, {baby_id})
         /\ progress' = Without(progress, {i \in DOMAIN progress :
                                              progress[i].baby_id = baby_id})
         /\ media' = Without(media, {i \in DOMAIN media : media[i].baby_id = baby_id})
         /\ Served("delete_baby", baby_id, {})
         /\ UNCHANGED <<nextBabyId, nextProgressId, now, objects, nextMediaId>>

\* BabyProgress(**progress_in.dict()): the row takes every field of the body,
\* its baby_id included; the derived columns start unset
NewProgress(progress_in) ==
    [baby_id |-> progress_in.baby_id, record_date |-> progress_in.record_date,
     weight |-> progress_in.weight, height |-> progress_in.height,
     head_circumference |-> progress_in.head_circumference,
     sleep_schedule |-> progress_in.sleep_schedule,
     feeding_times |-> progress_in.feeding_times,
     milestones |-> progress_in.milestones,
     growth_percentile |-> None, sleep_quality_index |-> None,
     feeding_efficiency |-> None, developmental_score |-> None]

create_baby_progress(user, baby_id, progress_in) ==
    /\ nextProgressId <= MaxProgressId
    /\ IF ~Owns(user, baby_id) THEN Failed("create_baby_progress", 0, "404")
       ELSE IF \E i \in DOMAIN progress :
                  /\ progress[i].baby_id = baby_id
                  /\ progress[i].record_date = progress_in.record_date
       THEN Failed("create_baby_progress", 0, "400")
       ELSE \E processed \in {process_baby_progress(NewProgress(progress_in),
                                                        babies[baby_id], now)} :
                IF processed.err # "none"
                THEN Failed("create_baby_progress", 0, processed.err)
                ELSE IF progress_in.baby_id \notin DOMAIN babies
                THEN Failed("create_baby_progress", 0, "IntegrityError")
                ELSE /\ progress' = progress @@ (nextProgressId :> processed.val)
                     /\ nextProgressId' = nextProgressId + 1
                     /\ Served("create_baby_progress", nextProgressId,
                               DOMAIN progress_in \ {"baby_id"})
                     /\ UNCHANGED <<babies, nextBabyId, now, media, objects, nextMediaId>>

update_progress_record(user, baby_id, progress_id, update_data) ==
    IF ~Owns(user, baby_id) THEN Failed("update_progress_record", progress_id, "404")
    ELSE IF ~(progress_id \in DOMAIN progress /\ progress[progress_id].baby_id = baby_id)
    THEN Failed("update_progress_record", progress_id, "404")
    ELSE \E processed \in {process_baby_progress(Patched(progress[progress_id],
                                                             update_data),
                                                     babies[baby_id], now)} :
             IF processed.err # "none"
             THEN Failed("update_progress_record", progress_id, processed.err)
             ELSE /\ progress' = [progress EXCEPT ![progress_id] = processed.val]
                  /\ Served("update_progress_record", progress_id, DOMAIN update_data)
                  /\ UNCHANGED <<babies, nextBabyId, nextProgressId, now, media, objects, nextMediaId>>

delete_progress_record(user, baby_id, progress_id) ==
    IF ~Owns(user, baby_id) THEN Failed("delete_progress_record", progress_id, "404")
    ELSE IF ~(progress_id \in DOMAIN progress /\ progress[progress_id].baby_id = baby_id)
    THEN Failed("delete_progress_record", progress_id, "404")
    ELSE /\ progress' = Without(progress, {progress_id})
         /\ Served("delete_progress_record", progress_id, {})
         /\ UNCHANGED <<babies, nextBabyId, nextProgressId, now, media, objects, nextMediaId>>

-----------------------------------------------------------------------------
(* Insight aggregator.  The clock counts minutes from midnight of Epoch;    *)
(* date.today() is the day the clock is in.                                *)

Epoch == <<2024, 3, 20>>

IsLeap(y) == (y % 4 = 0 /\ y % 100 # 0) \/ y % 400 = 0

DaysInMonth(y, m) ==
    IF m = 2 THEN (IF IsLeap(y) THEN 29 ELSE 28)
    ELSE IF m \in {4, 6, 9, 11} THEN 30
    ELSE 31

RECURSIVE DaysBeforeMonth(_, _)
DaysBeforeMonth(y, m) ==
    IF m = 1 THEN 0 ELSE DaysBeforeMonth(y, m - 1) + DaysInMonth(y, m - 1)

\* date.toordinal(): the days from 0001-01-01, that day being 1
Ordinal(d) ==
    365 * (Year(d) - 1) + ((Year(d) - 1) \div 4) - ((Year(d) - 1) \div 100)
    + ((Year(d) - 1) \div 400) + DaysBeforeMonth(Year(d), Month(d)) + Day(d)

FirstOfNextMonth(d) ==
    IF Month(d) < 12 THEN <<Year(d), Month(d) + 1, 1>> ELSE <<Year(d) + 1, 1, 1>>

\* date + timedelta(days=n), n >= 0
RECURSIVE AddDays(_, _)
AddDays(d, n) ==
    IF Day(d) + n <= DaysInMonth(Year(d), Month(d)) THEN <<Year(d), Month(d), Day(d) + n>>
    ELSE AddDays(FirstOfNextMonth(d), n - (DaysInMonth(Year(d), Month(d)) - Day(d) + 1))

Today(clock) == AddDays(Epoch, clock \div (24 * 60))

\* a filter that leaves out the rows dated exactly 7 or 30 days before today
InTimeframe_after_cutoff(row, timeframe, today) ==
    IF timeframe = "week" THEN Ordinal(row.record_date) > Ordinal(today) - 7
    ELSE IF timeframe = "month" THEN Ordinal(row.record_date) > Ordinal(today) - 30
    ELSE TRUE

\* the timeframe filter on the rows of the baby
InTimeframe(row, timeframe, today) ==
    IF timeframe = "week" THEN Ordinal(row.record_date) >= Ordinal(today) - 7
    ELSE IF timeframe = "month" THEN Ordinal(row.record_date) >= Ordinal(today) - 30
    ELSE TRUE

Filtered(baby_id, timeframe, today) ==
    {i \in DOMAIN progress :
        progress[i].baby_id = baby_id /\ InTimeframe(progress[i], timeframe, today)}

\* order_by(record_date).all(): the rows in the order of their dates; rows of
\* one date come in an order the database chooses
OrderedByDate(ids) ==
    {s \in [1..Cardinality(ids) -> ids] :
        /\ \A i, j \in DOMAIN s : i # j => s[i] # s[j]
        /\ \A i \in 1..(Len(s) - 1) :
              Ordinal(progress[s[i]].record_date) <= Ordinal(progress[s[i + 1]].record_date)}

\* the truth value of an optional float: None and 0.0 are falsy
Truthy(x) == ~IsNone(x) /\ x # Num(0)

RECURSIVE TruthyValues(_, _)
TruthyValues(rows, field) ==
    IF rows = <<>> THEN <<>>
    ELSE (IF Truthy(Head(rows)[field]) THEN <<Head(rows)[field]>> ELSE <<>>)
         \o TruthyValues(Tail(rows), field)

\* the mean of the truthy values of a field, None when there is none
AverageOf(values) ==
    IF values = <<>> THEN None ELSE RDiv(RSum(values), Num(Len(values)))

\* the sleep and feeding trends
Trend(first, last_) ==
    IF Truthy(last_) /\ Truthy(first) /\ RLt(first, last_) THEN "improving"
    ELSE IF Truthy(last_) /\ Truthy(first) /\ RLt(last_, first) THEN "declining"
    ELSE "stable"

DevelopmentTrend(first, last_) ==
    IF Truthy(last_) /\ Truthy(first) /\ RLt(first, last_) THEN "improving"
    ELSE IF Truthy(last_) /\ Truthy(first) /\ last_ = first THEN "stable"
    ELSE IF Truthy(last_) THEN "as expected"
    ELSE "not enough data"

\* a rounding that drops what lies beyond the first decimal
RoundTo1_down(x) == R((x[1] * 10) \div x[2], 10)

\* round(x, 1), ties to the even tenth
RoundTo1(x) ==
    LET tenths == RMul(x, Num(10))
        floor == tenths[1] \div tenths[2]
        twice == 2 * (tenths[1] - floor * tenths[2])
    IN  IF twice > tenths[2] THEN R(floor + 1, 10)
        ELSE IF twice < tenths[2] THEN R(floor, 10)
        ELSE IF floor % 2 = 0 THEN R(floor, 10)
        ELSE R(floor + 1, 10)

\* a two-point gain per `scale` days; None stands for a key that is not set
GainRate(first_value, last_value, rows, scale) ==
    IF /\ Len(rows) >= 2
       /\ Ordinal(rows[Len(rows)].record_date) - Ordinal(rows[1].record_date) > 0
       /\ Truthy(first_value) /\ Truthy(last_value)
    THEN RoundTo1(RMul(RDiv(RSub(last_value, first_value),
                            Num(Ordinal(rows[Len(rows)].record_date)
                                - Ordinal(rows[1].record_date))),
                       Num(scale)))
    ELSE None

Snapshot(row) ==
    [date |-> row.record_date, weight |-> row.weight, height |-> row.height,
     head_circumference |-> row.head_circumference]

\* the insights of a non-empty list of rows in date order
Insights(rows, timeframe, today, baby) ==
    [total_records |-> Len(rows),
     timeframe |-> timeframe,
     baby_age_months |-> (Year(today) - Year(baby.date_of_birth)) * 12
                         + (Month(today) - Month(baby.date_of_birth)),
     growth |->
        [first_record |-> Snapshot(rows[1]),
         latest_record |-> Snapshot(rows[Len(rows)]),
         average_percentile |-> AverageOf(TruthyValues(rows, "growth_percentile")),
         weight_gain_per_week |->
            GainRate(rows[1].weight, rows[Len(rows)].weight, rows, 7 * 1000),
         height_gain_per_month |->
            GainRate(rows[1].height, rows[Len(rows)].height, rows, 30),
         head_circumference_gain_per_month |->
            GainRate(rows[1].head_circumference, rows[Len(rows)].head_circumference,
                     rows, 30)],
     sleep |->
        [average_quality |-> AverageOf(TruthyValues(rows, "sleep_quality_index")),
         trend |-> Trend(rows[1].sleep_quality_index, rows[Len(rows)].sleep_quality_index)],
     feeding |->
        [average_efficiency |-> AverageOf(TruthyValues(rows, "feeding_efficiency")),
         trend |-> Trend(rows[1].feeding_efficiency, rows[Len(rows)].feeding_efficiency)],
     development |->
        [average_score |-> AverageOf(TruthyValues(rows, "developmental_score")),
         trend |-> DevelopmentTrend(rows[1].developmental_score,
                                    rows[Len(rows)].developmental_score)]]

NoDataMessage == "No progress data available for the selected timeframe"

\* the response: the no-data message with an empty insights body, or the insights
Response(rows, timeframe, today, baby) ==
    IF Len(rows) = 0 THEN [message |-> Some(NoDataMessage), insights |-> <<>>]
    ELSE [message |-> None, insights |-> Insights(rows, timeframe, today, baby)]

get_baby_insights(user, baby_id, timeframe) ==
    IF ~Owns(user, baby_id) THEN Failed("get_baby_insights", baby_id, "404")
    ELSE /\ \E ids \in OrderedByDate(Filtered(baby_id, timeframe, Today(now))) :
              \* rows: the ids of the rows the query returned, in its order
              last' = [op |-> "get_baby_insights", id |-> baby_id, err |-> "none",
                       changed |-> {}, timeframe |-> timeframe, rows |-> ids,
                       body |-> Response([k \in 1..Len(ids) |-> progress[ids[k]]],
                                         timeframe, Today(now), babies[baby_id])]
         /\ UNCHANGED <<babies, progress, nextBabyId, nextProgressId, now, media, objects, nextMediaId>>

-----------------------------------------------------------------------------
(* The read endpoints of the progress records, and the media endpoints.    *)
(* media maps serial ids to media item rows; objects is the set of keys    *)
(* the object store holds.                                                 *)

MaxMediaId == 1

\* a request that returned rows without storing anything
Answered(op, id, body) ==
    /\ last' = [op |-> op, id |-> id, err |-> "none", changed |-> {}, body |-> body]
    /\ UNCHANGED <<babies, progress, nextBabyId, nextProgressId, now,
                   media, objects, nextMediaId>>

\* with the default skip, limit and dates: every record of the baby
get_baby_progress(user, baby_id) ==
    IF ~Owns(user, baby_id) THEN Failed("get_baby_progress", baby_id, "404")
    ELSE Answered("get_baby_progress", baby_id,
                  {i \in DOMAIN progress : progress[i].baby_id = baby_id})

get_progress_record(user, baby_id, progress_id) ==
    IF ~Owns(user, baby_id) THEN Failed("get_progress_record", progress_id, "404")
    ELSE IF ~(progress_id \in DOMAIN progress /\ progress[progress_id].baby_id = baby_id)
    THEN Failed("get_progress_record", progress_id, "404")
    ELSE Answered("get_progress_record", progress_id, {progress_id})

\* with the default skip and limit and no media_type: every item of the baby;
\* the refreshed URLs are not committed
get_baby_media(user, baby_id) ==
    IF ~Owns(user, baby_id) THEN Failed("get_baby_media", baby_id, "404")
    ELSE Answered("get_baby_media", baby_id,
                  {i \in DOMAIN media : media[i].baby_id = baby_id})

ValidMediaTypes == {"photo", "video", "document"}

\* S3Service._generate_file_key: the baby, a timestamp and a fresh identifier
GeneratedKey(baby_id) == <<baby_id, nextMediaId>>

\* put_ok: whether put_object succeeded; a ClientError ends the request with 500
upload_media(user, baby_id, media_type, put_ok) ==
    /\ nextMediaId <= MaxMediaId
    /\ IF ~Owns(user, baby_id) THEN Failed("upload_media", 0, "404")
       ELSE IF media_type \notin ValidMediaTypes THEN Failed("upload_media", 0, "400")
       ELSE IF ~put_ok THEN Failed("upload_media", 0, "500")
       ELSE /\ objects' = objects \cup {GeneratedKey(baby_id)}
            /\ media' = media @@ (nextMediaId :>
                            [baby_id |-> baby_id, media_type |-> media_type,
                             s3_key |-> GeneratedKey(baby_id), notes |-> None])
            /\ nextMediaId' = nextMediaId + 1
            /\ Served("upload_media", nextMediaId, {})
            /\ UNCHANGED <<babies, progress, nextBabyId, nextProgressId, now>>

\* the refreshed URL is committed; the row is otherwise as it was
get_media_item(user, baby_id, media_id) ==
    IF ~Owns(user, baby_id) THEN Failed("get_media_item", media_id, "404")
    ELSE IF ~(media_id \in DOMAIN media /\ media[media_id].baby_id = baby_id)
    THEN Failed("get_media_item", media_id, "404")
    ELSE Answered("get_media_item", media_id, {media_id})

update_media_item(user, baby_id, media_id, update_data) ==
    IF ~Owns(user, baby_id) THEN Failed("update_media_item", media_id, "404")
    ELSE IF ~(media_id \in DOMAIN media /\ media[media_id].baby_id = baby_id)
    THEN Failed("update_media_item", media_id, "404")
    ELSE /\ media' = [media EXCEPT ![media_id] = Patched(@, update_data)]
         /\ Served("update_media_item", media_id, DOMAIN update_data)
         /\ UNCHANGED <<babies, progress, nextBabyId, nextProgressId, now,
                        objects, nextMediaId>>

\* S3Service.delete_file: the object is gone, or on a ClientError it stays and
\* False is returned
delete_file(s3_key, delete_ok) == IF delete_ok THEN objects \ {s3_key} ELSE objects

\* the result of delete_file is not looked at: the row is deleted either way
delete_media_item(user, baby_id, media_id, delete_ok) ==
    IF ~Owns(user, baby_id) THEN Failed("delete_media_item", media_id, "404")
    ELSE IF ~(media_id \in DOMAIN media /\ media[media_id].baby_id = baby_id)
    THEN Failed("delete_media_item", media_id, "404")
    ELSE /\ objects' = delete_file(media[media_id].s3_key, delete_ok)
         /\ media' = Without(media, {media_id})
         /\ Served("delete_media_item", media_id, {})
         /\ UNCHANGED <<babies, progress, nextBabyId, nextProgressId, now, nextMediaId>>

-----------------------------------------------------------------------------
(* The service under a bounded set of requests                             *)

MaxTicks == 1

Users == {1}

BabyIds == 1..MaxBabyId

ProgressIds == 1..MaxProgressId

BirthDates == {<<2024, 1, 20>>, <<2024, 3, 10>>}

\* 60 days and 96 days after the first birth date
RecordDates == {<<2024, 3, 20>>, <<2024, 4, 25>>}

BabyCreates == {[date_of_birth |-> <<2024, 1, 20>>, gender |-> Some("female")]}

BabyUpdates == {[date_of_birth |-> d] : d \in BirthDates}

ClosedNap ==
    [start_time |-> Naive(6 * 60), end_time |-> Some(Naive(9 * 60)), quality |-> Some("good")]

OpenNap == [start_time |-> Naive(9 * 60), end_time |-> None, quality |-> Some("fair")]

TwoFeeds ==
    <<[start_time |-> Naive(6 * 60), end_time |-> Some(Naive(6 * 60 + 20)),
       type |-> "breast"],
      [start_time |-> Naive(8 * 60), end_time |-> Some(Naive(8 * 60 + 15)),
       type |-> "bottle"]>>

OneMilestone == <<[milestone |-> <<"Laughs">>, achieved_date |-> Some(<<2024, 3, 15>>)]>>

NoMeasurements ==
    [weight |-> None, height |-> None, head_circumference |-> None,
     sleep_schedule |-> <<>>, feeding_times |-> <<>>, milestones |-> <<>>]

\* the raw inputs of a request body: a day's log with an open sleep session,
\* and a lone finished sleep session
Measurements ==
    {[NoMeasurements EXCEPT !.weight = R(52, 10), !.sleep_schedule = <<OpenNap>>,
                            !.feeding_times = TwoFeeds, !.milestones = OneMilestone],
     [NoMeasurements EXCEPT !.sleep_schedule = <<ClosedNap>>]}

ProgressCreates ==
    {[f \in DOMAIN m \cup {"baby_id", "record_date"} |->
         IF f = "baby_id" THEN b ELSE IF f = "record_date" THEN d ELSE m[f]] :
        m \in Measurements, b \in BabyIds, d \in RecordDates}

\* exclude_unset: a request body sets only the fields it names
ProgressUpdates ==
    {<<>>, [sleep_schedule |-> <<>>]}
    \cup {[record_date |-> d] : d \in RecordDates}

Init ==
    /\ EmptyStore
    /\ now = 10 * 60
    /\ probe = "none"

\* time passes between two requests
Tick ==
    /\ now < 10 * 60 + 60 * MaxTicks
    /\ now' = now + 60
    /\ UNCHANGED <<babies, progress, nextBabyId, nextProgressId, last, probe,
                 media, objects, nextMediaId>>

CreateBaby ==
    \E user \in Users, baby_in \in BabyCreates :
        create_baby(user, baby_in) /\ UNCHANGED probe

UpdateBaby ==
    \E user \in Users, baby_id \in BabyIds, update_data \in BabyUpdates :
        update_baby(user, baby_id, update_data) /\ UNCHANGED probe

DeleteBaby ==
    \E user \in Users, baby_id \in BabyIds :
        delete_baby(user, baby_id) /\ UNCHANGED probe

CreateBabyProgress ==
    \E user \in Users, baby_id \in BabyIds, progress_in \in ProgressCreates :
        create_baby_progress(user, baby_id, progress_in) /\ UNCHANGED probe

UpdateProgressRecord ==
    \E user \in Users, baby_id \in BabyIds, progress_id \in ProgressIds,
       update_data \in ProgressUpdates :
        update_progress_record(user, baby_id, progress_id, update_data) /\ UNCHANGED probe

DeleteProgressRecord ==
    \E user \in Users, baby_id \in BabyIds, progress_id \in ProgressIds :
        delete_progress_record(user, baby_id, progress_id) /\ UNCHANGED probe

Next ==
    \/ Tick
    \/ CreateBaby
    \/ UpdateBaby
    \/ DeleteBaby
    \/ CreateBabyProgress
    \/ UpdateProgressRecord
    \/ DeleteProgressRecord

Spec == Init /\ [][Next]_vars

-----------------------------------------------------------------------------
(* The interpolator on bounded inputs                                      *)

MaxAnchor == 4

AltLadder == <<Num(10), Num(25), Num(50), Num(75), Num(90)>>

AnchorSeqs == {[i \in 1..Len(DefaultLadder) |-> Num(f[i])] :
                  f \in [1..Len(DefaultLadder) -> 1..MaxAnchor]}

\* measurements in halves, from 0 to one above the largest anchor
ProbeValues == {R(k, 2) : k \in 0..(2 * (MaxAnchor + 1))}

InitInterpolate ==
    /\ EmptyStore
    /\ now = 0
    /\ probe \in {[fn |-> "interpolate_percentile", value |-> v, standards |-> s,
                   percentiles |-> p, ret |-> Pending] :
                     v \in ProbeValues, s \in AnchorSeqs, p \in {DefaultLadder, AltLadder}}

CallInterpolate ==
    /\ probe.ret = Pending
    /\ probe' = [probe EXCEPT !.ret =
                    interpolate_percentile(probe.value, probe.standards, probe.percentiles)]
    /\ StoreUnchanged

NextInterpolate == CallInterpolate

SpecInterpolate == InitInterpolate /\ [][NextInterpolate]_vars

-----------------------------------------------------------------------------
(* The growth scorer on bounded inputs                                     *)

MaxRecordMonth == 6

MaxWeightKg == 8

ProbeGenders == {None, Some(""), Some("male"), Some("female"), Some("Female"),
                 Some("MALE"), Some("other")}

ProbeBirthDates == {<<2024, 1, 20>>, <<2024, 3, 10>>}

ProbeRecordDates == {<<2024, m, d>> : m \in 1..MaxRecordMonth, d \in {5, 20}}

ProbeWeights == {None} \cup {Num(k) : k \in 0..MaxWeightKg} \cup {R(52, 10)}

ProbeHeights == {None, Num(0), Num(50), R(575, 10)}

ProbeHeads == {None, Num(0), Num(34), R(382, 10)}

InitGrowth ==
    /\ EmptyStore
    /\ now = 0
    /\ probe \in {[fn |-> "calculate_growth_percentile",
                   baby |-> [date_of_birth |-> b, gender |-> g],
                   weight |-> w, height |-> h, head_circumference |-> c,
                   record_date |-> r, ret |-> Pending] :
                     b \in ProbeBirthDates, g \in ProbeGenders, w \in ProbeWeights,
                     h \in ProbeHeights, c \in ProbeHeads, r \in ProbeRecordDates}

CallGrowth ==
    /\ probe.ret = Pending
    /\ probe' = [probe EXCEPT !.ret =
                    calculate_growth_percentile(probe.baby, probe.weight, probe.height,
                                                probe.head_circumference, probe.record_date)]
    /\ StoreUnchanged

NextGrowth == CallGrowth

SpecGrowth == InitGrowth /\ [][NextGrowth]_vars

-----------------------------------------------------------------------------
(* The sleep, feeding and developmental scorers on bounded inputs          *)

MaxEntries == 2

SeqsUpTo(S, n) == UNION {[1..k -> S] : k \in 0..n}

\* sessions start at 06:00 (night) or at 10:30 (day), the latter also with a
\* UTC offset
ProbeSleepStarts == {Naive(6 * 60), Naive(9 * 60 + 90), Aware(9 * 60 + 90)}

\* and are open, or end at 07:30 or at 10:30 in the manner of their start, or,
\* for a start with an offset, at 10:30 without one
ProbeSleepEnds(t) ==
    {None, Some([t EXCEPT !.at = 6 * 60 + 90]), Some([t EXCEPT !.at = 9 * 60 + 90])}
    \cup (IF t.aware THEN {Some(Naive(9 * 60 + 90))} ELSE {})

\* with a quality of good, fair or None, or with no quality key at all
ProbeSleepSessions ==
    UNION {{[start_time |-> t, end_time |-> e, quality |-> q] :
               e \in ProbeSleepEnds(t), q \in {Some("good"), Some("fair"), None}}
           \cup {[start_time |-> t, end_time |-> e] : e \in ProbeSleepEnds(t)} :
           t \in ProbeSleepStarts}

\* feeds start at 01:00, 03:00 or 13:00, the first two also with a UTC offset
ProbeFeedTimes == {Naive(60), Aware(60), Naive(3 * 60), Aware(3 * 60), Naive(13 * 60)}

\* no end, an end 20 minutes after the start, an end an hour before it, and
\* for a start with an offset an end without one
ProbeFeeds ==
    UNION {{[start_time |-> t, end_time |-> e, type |-> ty] :
               e \in {None, Some([t EXCEPT !.at = @ + 20]), Some([t EXCEPT !.at = @ - 60])}
                     \cup (IF t.aware THEN {Some(Naive(t.at + 20))} ELSE {}),
               ty \in {"breast", "bottle", "other"}} : t \in ProbeFeedTimes}

\* the youngest and a middle feeding band
ProbeFeedAges == {0, 3}

\* below the milestone catalog, at its first month, inside it, above it
ProbeAges == {0, 1, 3, 6}

ProbeLabels == {<<>>, <<"Laughs">>, <<"rolls">>, <<"rolls", "over">>, <<"walks">>}

ProbeMilestones ==
    [milestone     : ProbeLabels,
     achieved_date : {None, Some(<<2024, 1, 25>>), Some(<<2024, 6, 1>>)}]

InitScorers ==
    /\ EmptyStore
    /\ now = 10 * 60
    /\ probe \in
          {[fn |-> "calculate_sleep_quality_index", sleep_schedule |-> ss, ret |-> Pending] :
              ss \in SeqsUpTo(ProbeSleepSessions, MaxEntries)}
          \cup
          {[fn |-> "calculate_feeding_efficiency", feeding_times |-> fs,
            baby_age_months |-> a, ret |-> Pending] :
              fs \in SeqsUpTo(ProbeFeeds, MaxEntries), a \in ProbeFeedAges}
          \cup
          {[fn |-> "calculate_developmental_score", milestones |-> ms,
            baby_age_months |-> a, baby |-> [date_of_birth |-> b, gender |-> None],
            ret |-> Pending] :
              ms \in SeqsUpTo(ProbeMilestones, MaxEntries), a \in ProbeAges,
              b \in ProbeBirthDates}

CallSleep ==
    /\ probe.fn = "calculate_sleep_quality_index"
    /\ probe.ret = Pending
    /\ probe' = [probe EXCEPT !.ret =
                    calculate_sleep_quality_index(probe.sleep_schedule, now)]
    /\ StoreUnchanged

CallFeeding ==
    /\ probe.fn = "calculate_feeding_efficiency"
    /\ probe.ret = Pending
    /\ probe' = [probe EXCEPT !.ret =
                    calculate_feeding_efficiency(probe.feeding_times,
                                                 probe.baby_age_months)]
    /\ StoreUnchanged

CallDevelopment ==
    /\ probe.fn = "calculate_developmental_score"
    /\ probe.ret = Pending
    /\ probe' = [probe EXCEPT !.ret =
                    Ok(calculate_developmental_score(probe.milestones,
                                                     probe.baby_age_months, probe.baby))]
    /\ StoreUnchanged

NextScorers == CallSleep \/ CallFeeding \/ CallDevelopment

SpecScorers == InitScorers /\ [][NextScorers]_vars

-----------------------------------------------------------------------------
(* The record processor on bounded records, run twice as time passes       *)

ProbeSleepSchedules ==
    {<<>>, <<ClosedNap>>, <<OpenNap>>, <<ClosedNap, OpenNap>>,
     <<[OpenNap EXCEPT !.start_time = Aware(9 * 60)]>>}

ProbeRawInputs ==
    [weight : {None, R(52, 10)}, height : {None},
     head_circumference : {None, R(382, 10)},
     sleep_schedule : ProbeSleepSchedules, feeding_times : {<<>>, TwoFeeds},
     milestones : {<<>>, OneMilestone}]

ProbeRecords ==
    {NewProgress([f \in DOMAIN m \cup {"baby_id", "record_date"} |->
                     IF f = "baby_id" THEN 1 ELSE IF f = "record_date" THEN d ELSE m[f]]) :
        m \in ProbeRawInputs, d \in RecordDates}

ProbeBabies == [date_of_birth : BirthDates, gender : {None, Some("female")}]

InitProcessor ==
    /\ EmptyStore
    /\ now = 10 * 60
    /\ probe \in {[fn |-> "process_baby_progress", progress |-> r, baby |-> b,
                    passes |-> 0, clocks |-> <<>>, first |-> Pending, ret |-> Pending] :
                      r \in ProbeRecords, b \in ProbeBabies}

\* a pass rebinds the derived fields of the record in place
CallProcess ==
    /\ probe.fn = "process_baby_progress"
    /\ probe.passes < 2
    /\ \E processed \in {process_baby_progress(probe.progress, probe.baby, now)} :
           probe' = [probe EXCEPT
                        !.progress = IF processed.err = "none" THEN processed.val ELSE @,
                        !.passes = @ + 1,
                        !.clocks = Append(@, now),
                        !.first = IF probe.passes = 0 THEN processed ELSE @,
                        !.ret = processed]
    /\ StoreUnchanged

NextProcessor == CallProcess \/ Tick

SpecProcessor == InitProcessor /\ [][NextProcessor]_vars

-----------------------------------------------------------------------------
(* The insight aggregator over bounded stores, on three days               *)

\* the record dates of the first baby, in increasing order
InsightDates == <<(<<2024, 3, 20>>), (<<2024, 4, 10>>), (<<2024, 4, 25>>)>>

\* 2024-04-17, 2024-04-19 and 2024-04-28: seven days after the second date,
\* thirty days after the first, and a day with one date in the last week, two
\* in the last month
InsightDays == {28, 30, 39}

\* a sleep session logged with its end a day before its start
BackwardNap ==
    [start_time |-> Naive(9 * 60), end_time |-> Some(Naive(9 * 60 - 24 * 60)),
     quality |-> Some("good")]

\* a milestone that is expected of no baby of three months or less
LateMilestone == <<[milestone |-> <<"walks">>, achieved_date |-> None]>>

\* a milestone of the first month: one of six expected at two months, one of
\* nine at three
FirstMonthMilestone ==
    <<[milestone |-> <<"responds", "to", "sounds">>, achieved_date |-> None]>>

\* the bodies the stored rows were created from; the third one scores 0.0 for
\* sleep and for development
InsightPayloads ==
    <<[NoMeasurements EXCEPT !.weight = R(52, 10), !.sleep_schedule = <<OpenNap>>,
                             !.feeding_times = TwoFeeds, !.milestones = OneMilestone],
      [NoMeasurements EXCEPT !.sleep_schedule = <<ClosedNap>>],
      [NoMeasurements EXCEPT !.weight = R(50, 10),
                             !.sleep_schedule = <<BackwardNap>>,
                             !.milestones = LateMilestone],
      [NoMeasurements EXCEPT !.milestones = FirstMonthMilestone]>>

\* two bodies with all three measurements, for a baby in its first month
MeasuredPayloads ==
    <<[NoMeasurements EXCEPT !.weight = R(40, 10), !.height = R(520, 10),
                             !.head_circumference = R(350, 10)],
      [NoMeasurements EXCEPT !.weight = R(42, 10), !.height = R(550, 10),
                             !.head_circumference = R(364, 10)]>>

InsightBabies ==
    (1 :> [parent_id |-> 1, date_of_birth |-> <<2024, 1, 20>>, gender |-> Some("female")])
    @@ (2 :> [parent_id |-> 2, date_of_birth |-> <<2024, 3, 15>>, gender |-> None])

\* the row create_baby_progress stores for a body
StoredRow(baby_id, record_date, payload) ==
    process_baby_progress(
        NewProgress([f \in DOMAIN payload \cup {"baby_id", "record_date"} |->
                        IF f = "baby_id" THEN baby_id
                        ELSE IF f = "record_date" THEN record_date
                        ELSE payload[f]]),
        InsightBabies[baby_id], 10 * 60).val

\* choice[k] = 0: the first baby has no record of the k-th date; else the
\* payload of its record.  Later dates were logged first
FirstBabyRows(choice) ==
    [i \in {4 - k : k \in {c \in DOMAIN choice : choice[c] # 0}} |->
        StoredRow(1, InsightDates[4 - i], InsightPayloads[choice[4 - i]])]

\* the records of the second baby: one of the last date; or two measured ones
\* of the first two dates; or two measured ones that share the first date (a
\* record moved there by update_progress_record, which checks no date)
SecondBabyRows(variant) ==
    IF variant = 0 THEN 4 :> StoredRow(2, InsightDates[3], InsightPayloads[2])
    ELSE (4 :> StoredRow(2, InsightDates[1], MeasuredPayloads[1]))
         @@ (5 :> [StoredRow(2, InsightDates[2], MeasuredPayloads[2])
                      EXCEPT !.record_date = InsightDates[IF variant = 1 THEN 2 ELSE 1]])

InsightStore(choice, variant) == FirstBabyRows(choice) @@ SecondBabyRows(variant)

InitInsights ==
    /\ babies = InsightBabies
    /\ nextBabyId = 3
    /\ progress \in {InsightStore(choice, variant) :
                        choice \in [1..Len(InsightDates) -> 0..Len(InsightPayloads)],
                        variant \in 0..2}
    /\ nextProgressId = 6
    /\ media = <<>>
    /\ objects = {}
    /\ nextMediaId = 1
    /\ now \in {day * 24 * 60 + 10 * 60 : day \in InsightDays}
    /\ last = [op |-> "none", id |-> 0, err |-> "none", changed |-> {}]
    /\ probe = "none"

Timeframes == {"week", "month", "all"}

GetBabyInsights ==
    \E user \in {1, 2}, baby_id \in {1, 2, 3}, timeframe \in Timeframes :
        get_baby_insights(user, baby_id, timeframe) /\ UNCHANGED probe

NextInsights == GetBabyInsights

SpecInsights == InitInsights /\ [][NextInsights]_vars

-----------------------------------------------------------------------------
(* Two parents, each with one baby, calling the progress, insights and     *)
(* media endpoints with any baby id in the path and in the body; probe     *)
(* keeps the request that was served last.  The serial of the progress     *)
(* records starts at its last value.                                       *)

Parents == {1, 2}

PathBabyIds == {1, 2, 3}

Request(op, user, baby_id) == probe' = [op |-> op, user |-> user, baby_id |-> baby_id]

AccessCreates ==
    {[f \in DOMAIN NoMeasurements \cup {"baby_id", "record_date"} |->
         IF f = "baby_id" THEN b
         ELSE IF f = "record_date" THEN d
         ELSE IF f = "sleep_schedule" THEN <<ClosedNap>>
         ELSE NoMeasurements[f]] :
        b \in PathBabyIds, d \in {<<2024, 3, 20>>}}

\* a record moved to the other date
AccessUpdates == {[record_date |-> <<2024, 4, 25>>]}

MediaUpdates == {[notes |-> Some("first smile")]}

InitAccess ==
    /\ babies = InsightBabies
    /\ nextBabyId = 3
    /\ progress = <<>>
    /\ nextProgressId = MaxProgressId
    /\ media = <<>>
    /\ objects = {}
    /\ nextMediaId = 1
    /\ now = 10 * 60
    /\ last = [op |-> "none", id |-> 0, err |-> "none", changed |-> {}]
    /\ probe = [op |-> "none", user |-> 0, baby_id |-> 0]

AccessCreateProgress ==
    \E user \in Parents, baby_id \in PathBabyIds, progress_in \in AccessCreates :
        /\ create_baby_progress(user, baby_id, progress_in)
        /\ Request("create_baby_progress", user, baby_id)

AccessGetProgress ==
    \E user \in Parents, baby_id \in PathBabyIds :
        get_baby_progress(user, baby_id) /\ Request("get_baby_progress", user, baby_id)

AccessGetRecord ==
    \E user \in Parents, baby_id \in PathBabyIds, progress_id \in ProgressIds :
        /\ get_progress_record(user, baby_id, progress_id)
        /\ Request("get_progress_record", user, baby_id)

AccessUpdateRecord ==
    \E user \in Parents, baby_id \in PathBabyIds, progress_id \in ProgressIds,
       update_data \in AccessUpdates :
        /\ update_progress_record(user, baby_id, progress_id, update_data)
        /\ Request("update_progress_record", user, baby_id)

AccessDeleteRecord ==
    \E user \in Parents, baby_id \in PathBabyIds, progress_id \in ProgressIds :
        /\ delete_progress_record(user, baby_id, progress_id)
        /\ Request("delete_progress_record", user, baby_id)

AccessInsights ==
    \E user \in Parents, baby_id \in PathBabyIds :
        /\ get_baby_insights(user, baby_id, "all")
        /\ Request("get_baby_insights", user, baby_id)

AccessUpload ==
    \E user \in Parents, baby_id \in PathBabyIds, media_type \in {"photo", "audio"},
       put_ok \in BOOLEAN :
        /\ upload_media(user, baby_id, media_type, put_ok)
        /\ Request("upload_media", user, baby_id)

AccessGetMedia ==
    \E user \in Parents, baby_id \in PathBabyIds :
        get_baby_media(user, baby_id) /\ Request("get_baby_media", user, baby_id)

AccessGetItem ==
    \E user \in Parents, baby_id \in PathBabyIds, media_id \in 1..MaxMediaId :
        /\ get_media_item(user, baby_id, media_id)
        /\ Request("get_media_item", user, baby_id)

AccessUpdateItem ==
    \E user \in Parents, baby_id \in PathBabyIds, media_id \in 1..MaxMediaId,
       update_data \in MediaUpdates :
        /\ update_media_item(user, baby_id, media_id, update_data)
        /\ Request("update_media_item", user, baby_id)

AccessDeleteItem ==
    \E user \in Parents, baby_id \in PathBabyIds, media_id \in 1..MaxMediaId,
       delete_ok \in BOOLEAN :
        /\ delete_media_item(user, baby_id, media_id, delete_ok)
        /\ Request("delete_media_item", user, baby_id)

AccessDeleteBaby ==
    \E user \in Parents, baby_id \in PathBabyIds :
        delete_baby(user, baby_id) /\ Request("delete_baby", user, baby_id)

NextAccess ==
    \/ AccessCreateProgress
    \/ AccessGetProgress
    \/ AccessGetRecord
    \/ AccessUpdateRecord
    \/ AccessDeleteRecord
    \/ AccessInsights
    \/ AccessUpload
    \/ AccessGetMedia
    \/ AccessGetItem
    \/ AccessUpdateItem
    \/ AccessDeleteItem
    \/ AccessDeleteBaby

SpecAccess == InitAccess /\ [][NextAccess]_vars

-----------------------------------------------------------------------------
(* Two create_baby_progress requests of one parent for one baby, served by *)
(* two workers, each in its own database session.  A request first runs    *)
(* its ownership and existence queries and later adds and commits its row; *)
(* the other request may run in between.  probe[r] is the position of      *)
(* request r and its body.                                                 *)

Racers == {1, 2}

RaceBodies ==
    {[f \in DOMAIN m \cup {"baby_id", "record_date"} |->
         IF f = "baby_id" THEN 1 ELSE IF f = "record_date" THEN d ELSE m[f]] :
        m \in Measurements, d \in RecordDates}

InitRace ==
    /\ babies = (1 :> [parent_id |-> 1, date_of_birth |-> <<2024, 1, 20>>,
                       gender |-> Some("female")])
    /\ nextBabyId = 2
    /\ progress = <<>>
    /\ nextProgressId = 1
    /\ media = <<>>
    /\ objects = {}
    /\ nextMediaId = 1
    /\ now = 10 * 60
    /\ last = [op |-> "none", id |-> 0, err |-> "none", changed |-> {}]
    /\ probe \in [Racers -> [pc : {"start"}, progress_in : RaceBodies]]

\* check_baby_ownership and the query for a record of the date
RaceCheck(r) ==
    /\ probe[r].pc = "start"
    /\ probe' = [probe EXCEPT ![r].pc =
                    IF ~Owns(1, 1) THEN "404"
                    ELSE IF \E i \in DOMAIN progress :
                               /\ progress[i].baby_id = 1
                               /\ progress[i].record_date = probe[r].progress_in.record_date
                    THEN "400"
                    ELSE "checked"]
    /\ UNCHANGED <<babies, progress, nextBabyId, nextProgressId, now, last,
                   media, objects, nextMediaId>>

\* BabyProgress(**progress_data), process_baby_progress, db.add and db.commit:
\* the table has no unique constraint on (baby_id, record_date), so the
\* commit succeeds whatever rows the table holds by then
RaceInsert(r) ==
    /\ probe[r].pc = "checked"
    /\ \E processed \in {process_baby_progress(NewProgress(probe[r].progress_in),
                                               babies[1], now)} :
          IF processed.err # "none"
          THEN /\ probe' = [probe EXCEPT ![r].pc = processed.err]
               /\ UNCHANGED <<progress, nextProgressId>>
          ELSE /\ progress' = progress @@ (nextProgressId :> processed.val)
               /\ nextProgressId' = nextProgressId + 1
               /\ probe' = [probe EXCEPT ![r].pc = "stored"]
    /\ UNCHANGED <<babies, nextBabyId, now, last, media, objects, nextMediaId>>

Check == \E r \in Racers : RaceCheck(r)

Insert == \E r \in Racers : RaceInsert(r)

NextRace == Check \/ Insert

SpecRace == InitRace /\ [][NextRace]_vars

-----------------------------------------------------------------------------
(* Properties of the pure functions                                        *)

NonDecreasing(s) == \A i \in 1..(Len(s) - 1) : RLe(s[i], s[i + 1])

Returned == probe.ret # Pending

InRange0To100(v) == RLe(Num(0), v) /\ RLe(v, Num(100))

\* C4 as claimed: for a gender that is male, female or absent, the growth scorer
\* returns without failing and its overall percentile lies in [0, 100]
C4_GrowthTotalAndBounded ==
    (Returned /\ probe.baby.gender \in {None, Some("male"), Some("female")})
        => (probe.ret.err = "none" /\ InRange0To100(probe.ret.val))

\* C5 as claimed: on a non-empty list of well-formed entries each of the sleep,
\* feeding and developmental scorers returns a value v with 0 <= v <= 100, also
\* for sessions that end before they start and for sessions that overlap
C5_ScoresWithinRange ==
    Returned =>
        CASE probe.fn = "calculate_sleep_quality_index" ->
                probe.sleep_schedule # <<>>
                    => (probe.ret.err = "none" /\ InRange0To100(probe.ret.val))
          [] probe.fn = "calculate_feeding_efficiency" ->
                probe.feeding_times # <<>>
                    => (probe.ret.err = "none" /\ InRange0To100(probe.ret.val))
          [] probe.fn = "calculate_developmental_score" ->
                probe.milestones # <<>>
                    => (probe.ret.err = "none" /\ InRange0To100(probe.ret.val))

C8_TopAnchorClamped ==
    (Returned /\ RLt(probe.standards[1], probe.standards[Len(probe.standards)])) =>
        /\ RLe(probe.standards[Len(probe.standards)], probe.value)
              => probe.ret = Ok(probe.percentiles[Len(probe.percentiles)])
        /\ probe.ret.err = "none"
              => RLe(probe.ret.val, probe.percentiles[Len(probe.percentiles)])

\* a value strictly above the last anchor has been mapped to the default
\* ladder's 97
C8_Witness_AboveTopAnchor ==
    /\ Returned
    /\ probe.percentiles = DefaultLadder
    /\ RLt(probe.standards[1], probe.standards[Len(probe.standards)])
    /\ RLt(probe.standards[Len(probe.standards)], probe.value)
    /\ probe.ret = Ok(Num(97))

\* C9 as claimed: anchors that are not non-decreasing end the call in the
\* InvalidReferenceData error, whatever the value
C9_NonMonotonicAnchorsRejected ==
    (Returned /\ ~NonDecreasing(probe.standards))
        => probe.ret.err = "InvalidReferenceData"

\* C10 as claimed: a gender differing from "male" or "female" only in case is
\* scored as that gender, every other gender and an absent one as "male", and
\* the gender value never makes the call fail
C10_GenderResolvedWithMaleDefault ==
    Returned =>
        LET g == IF IsNone(probe.baby.gender) THEN "" ELSE probe.baby.gender[1]
            resolved == IF g \in {"female", "Female", "FEMALE"} THEN "female" ELSE "male"
        IN  probe.ret = calculate_growth_percentile(
                            [probe.baby EXCEPT !.gender = Some(resolved)],
                            probe.weight, probe.height, probe.head_circumference,
                            probe.record_date)


-----------------------------------------------------------------------------
(* Properties of the stored records                                        *)

Clocks == {10 * 60 + 60 * k : k \in 0..MaxTicks}

\* the record as it is before any derived field is computed
Underived(p) ==
    [p EXCEPT !.growth_percentile = None, !.sleep_quality_index = None,
              !.feeding_efficiency = None, !.developmental_score = None]

AllSessionsEnded(p) ==
    \A i \in 1..Len(p.sleep_schedule) : ~IsNone(p.sleep_schedule[i].end_time)

\* C1 as claimed: the four derived fields of every stored record are what the
\* record processor computes from the record's raw inputs and record date and
\* its baby's current date of birth and gender, at some time of evaluation
C1_DerivedMatchCurrentInputs ==
    \A id \in DOMAIN progress :
        LET p == progress[id]
        IN  \E clock \in Clocks :
                LET processed == process_baby_progress(Underived(p), babies[p.baby_id], clock)
                IN  processed.err = "none" /\ Derived(processed.val) = Derived(p)

\* C2 as claimed: in every stored record, a derived field whose prerequisite
\* raw input is absent is unset
C2_AbsentInputLeavesDerivedUnset ==
    \A id \in DOMAIN progress :
        LET p == progress[id]
        IN  /\ (IsNone(p.weight) /\ IsNone(p.height) /\ IsNone(p.head_circumference))
                    => IsNone(p.growth_percentile)
            /\ p.sleep_schedule = <<>> => IsNone(p.sleep_quality_index)
            /\ p.feeding_times = <<>> => IsNone(p.feeding_efficiency)
            /\ p.milestones = <<>> => IsNone(p.developmental_score)

\* C3 as claimed: no two stored records of the same baby have the same record date
C3_OneRecordPerBabyPerDate ==
    \A i, j \in DOMAIN progress :
        (i # j /\ progress[i].baby_id = progress[j].baby_id)
            => progress[i].record_date # progress[j].record_date

\* C6 as claimed: a second pass of the processor over an unchanged record of an
\* unchanged baby leaves the four derived fields as the first pass left them,
\* also when a sleep session of the record has no end time
C6_SecondPassKeepsDerived ==
    (probe.fn = "process_baby_progress" /\ probe.passes = 2 /\ probe.first.err = "none")
        => (probe.ret.err = "none" /\ Derived(probe.ret.val) = Derived(probe.first.val))

\* C6 amended: a second pass of the processor over an unchanged record of an
\* unchanged baby leaves the four derived fields as the first pass left them,
\* provided every sleep session of the record has an end time
C6_SecondPassKeepsDerivedWhenSessionsEnded ==
    (/\ probe.fn = "process_baby_progress"
     /\ probe.passes = 2
     /\ probe.first.err = "none"
     /\ AllSessionsEnded(probe.progress))
        => (probe.ret.err = "none" /\ Derived(probe.ret.val) = Derived(probe.first.val))

\* a record whose only sleep session has ended has been processed, and, after
\* the clock has advanced, processed again with the same sleep quality index
C6_Witness_SecondPassOverEndedSession ==
    /\ probe.fn = "process_baby_progress"
    /\ probe.passes = 2
    /\ probe.clocks[1] < probe.clocks[2]
    /\ probe.progress.sleep_schedule = <<ClosedNap>>
    /\ probe.first.err = "none"
    /\ ~IsNone(probe.first.val.sleep_quality_index)
    /\ probe.ret = probe.first

-----------------------------------------------------------------------------
(* Properties of the growth scorer                                         *)

\* the anchors of a measurement's own table at the month nearest to the age
OwnAnchors(table, gender, age_months) ==
    table[gender][ClosestMonth(DOMAIN table[gender], age_months)]

\* the percentile of a supplied measurement against the anchors of its own table
OwnPercentile(table, measurement) ==
    interpolate_percentile(measurement,
        OwnAnchors(table, ResolveGender(probe.baby.gender),
                   calculate_age_in_months(probe.baby.date_of_birth, probe.record_date)),
        DefaultLadder).val

\* C11 as claimed: for a gender the tables hold, every supplied measurement is
\* interpolated against the anchors of the month of its own table that is
\* nearest to the baby's age, the lower month winning a tie
C11_AnchorsOfOwnTableNearestMonth ==
    (Returned /\ ResolveGender(probe.baby.gender) \in DOMAIN WHO_WEIGHT_FOR_AGE) =>
        /\ probe.ret.err = "none"
        /\ ~IsNone(probe.weight) =>
              probe.ret.weight_percentile = OwnPercentile(WHO_WEIGHT_FOR_AGE, probe.weight)
        /\ ~IsNone(probe.height) =>
              probe.ret.height_percentile = OwnPercentile(WHO_HEIGHT_FOR_AGE, probe.height)
        /\ ~IsNone(probe.head_circumference) =>
              probe.ret.head_percentile =
                  OwnPercentile(WHO_HEAD_CIRCUMFERENCE_FOR_AGE, probe.head_circumference)

\* C12: a returned overall percentile is the arithmetic mean of exactly the
\* sub-percentiles of the supplied measurements and 50 when none is supplied; a
\* sub-percentile is present exactly when its measurement is supplied, so with
\* only a weight the overall percentile is the weight percentile
C12_OverallIsMeanOfSupplied ==
    (Returned /\ probe.ret.err = "none") =>
        LET w == probe.ret.weight_percentile
            h == probe.ret.height_percentile
            c == probe.ret.head_percentile
            count == (IF IsNone(probe.weight) THEN 0 ELSE 1)
                     + (IF IsNone(probe.height) THEN 0 ELSE 1)
                     + (IF IsNone(probe.head_circumference) THEN 0 ELSE 1)
            total == RAdd(RAdd(IF IsNone(probe.weight) THEN Num(0) ELSE w,
                               IF IsNone(probe.height) THEN Num(0) ELSE h),
                          IF IsNone(probe.head_circumference) THEN Num(0) ELSE c)
        IN  /\ IsNone(w) <=> IsNone(probe.weight)
            /\ IsNone(h) <=> IsNone(probe.height)
            /\ IsNone(c) <=> IsNone(probe.head_circumference)
            /\ probe.ret.val = IF count = 0 THEN Num(50) ELSE RDiv(total, Num(count))
            /\ (count = 1 /\ ~IsNone(probe.weight)) => probe.ret.val = w

\* a 5.2 kg weight alone, for a girl of two months, has been scored: the overall
\* percentile is the weight percentile and no other percentile is present
C12_Witness_WeightAlone ==
    /\ Returned
    /\ probe.baby = [date_of_birth |-> <<2024, 1, 20>>, gender |-> Some("female")]
    /\ probe.record_date = <<2024, 3, 20>>
    /\ probe.weight = R(52, 10)
    /\ IsNone(probe.height) /\ IsNone(probe.head_circumference)
    /\ probe.ret.err = "none"
    /\ probe.ret.val = probe.ret.weight_percentile
    /\ probe.ret.val = Num(55)
    /\ IsNone(probe.ret.height_percentile) /\ IsNone(probe.ret.head_percentile)

-----------------------------------------------------------------------------
(* The age rule on bounded dates                                           *)

MaxAgeYears == 1

\* the start, the middle and the end of a year, early, middle and late in
\* the month
ProbeAgeDates == {<<y, m, d>> : y \in 2023..(2023 + MaxAgeYears), m \in {1, 6, 12},
                                d \in {1, 15, 28}}

InitAge ==
    /\ EmptyStore
    /\ now = 0
    /\ probe \in {[fn |-> "calculate_age_in_months", birth_date |-> b,
                    reference_date |-> r, ret |-> Pending] :
                      b \in ProbeAgeDates, r \in ProbeAgeDates}

CallAge ==
    /\ probe.ret = Pending
    /\ probe' = [probe EXCEPT !.ret =
                    Ok(calculate_age_in_months(probe.birth_date, probe.reference_date))]
    /\ StoreUnchanged

NextAge == CallAge

SpecAge == InitAge /\ [][NextAge]_vars

\* C13: the age is max(0, (ref.year - birth.year) * 12 + (ref.month - birth.month)
\* - d) with d = 1 if ref.day < birth.day and 0 otherwise, and is never negative,
\* also for a reference date before the birth date
C13_AgeInMonthsFormula ==
    Returned =>
        LET birth == probe.birth_date
            ref   == probe.reference_date
            d     == IF ref[3] < birth[3] THEN 1 ELSE 0
            m     == (ref[1] - birth[1]) * 12 + (ref[2] - birth[2]) - d
        IN  /\ probe.ret = Ok(IF m > 0 THEN m ELSE 0)
            /\ probe.ret.val >= 0

\* the age at a reference date half a year before the birth date has been
\* computed as 0
C13_Witness_ReferenceBeforeBirth ==
    /\ probe.birth_date = <<2024, 6, 15>>
    /\ probe.reference_date = <<2023, 12, 28>>
    /\ probe.ret = Ok(0)

-----------------------------------------------------------------------------
(* Properties of the sleep, feeding and developmental scorers              *)

\* C14: on an empty list the sleep scorer, the feeding scorer at any age and the
\* developmental scorer at any age and for any baby each return exactly 50
C14_EmptyListScoresFifty ==
    Returned =>
        /\ (probe.fn = "calculate_sleep_quality_index" /\ probe.sleep_schedule = <<>>)
              => probe.ret = Ok(Num(50))
        /\ (probe.fn = "calculate_feeding_efficiency" /\ probe.feeding_times = <<>>)
              => probe.ret = Ok(Num(50))
        /\ (probe.fn = "calculate_developmental_score" /\ probe.milestones = <<>>)
              => probe.ret = Ok(Num(50))

\* the developmental scorer has returned 50 for an empty list at age 0, where a
\* non-empty list scores 70
C14_Witness_EmptyMilestonesAtAgeZero ==
    /\ probe.fn = "calculate_developmental_score"
    /\ probe.milestones = <<>>
    /\ probe.baby_age_months = 0
    /\ probe.ret = Ok(Num(50))

\* C15: for a non-empty milestone list at age 0, below the lowest month of the
\* catalog, the developmental scorer returns exactly 70 whatever the entries
\* hold, with no early-achievement bonus
C15_TooYoungScoresSeventy ==
    (/\ Returned
     /\ probe.fn = "calculate_developmental_score"
     /\ probe.milestones # <<>>
     /\ probe.baby_age_months = 0)
        => probe.ret = Ok(Num(70))

\* at age 0 a list holding a laugh dated five days after birth, an early
\* achievement by the catalog, has been scored 70
C15_Witness_EarlyLaughAtAgeZero ==
    /\ probe.fn = "calculate_developmental_score"
    /\ probe.baby_age_months = 0
    /\ probe.baby.date_of_birth = <<2024, 1, 20>>
    /\ probe.milestones = <<[milestone |-> <<"Laughs">>,
                             achieved_date |-> Some(<<2024, 1, 25>>)]>>
    /\ EarlyBonus(probe.milestones[1], probe.baby) = 5
    /\ probe.ret = Ok(Num(70))

\* the index of a list of ended sessions by the rule of C16
SleepIndexByRule(schedule) ==
    LET n == Len(schedule)
        minutes == [k \in 1..n |->
                       Num(schedule[k].end_time[1].at - schedule[k].start_time.at)]
        at_night == [k \in 1..n |-> Hour(schedule[k].start_time) >= 20
                                     \/ Hour(schedule[k].start_time) <= 6]
        total == RSum(minutes)
        night == RSum([k \in 1..n |-> IF at_night[k] THEN minutes[k] ELSE Num(0)])
        weights == [k \in 1..n |->
                       IF "quality" \in DOMAIN schedule[k]
                          /\ schedule[k].quality = Some("good") THEN Num(1)
                       ELSE IF "quality" \in DOMAIN schedule[k]
                               /\ schedule[k].quality = Some("fair") THEN R(7, 10)
                       ELSE R(4, 10)]
        ordered == SortByStart([k \in 1..n |->
                                   [start |-> schedule[k].start_time.at,
                                    end   |-> schedule[k].end_time[1].at]])
        k == Cardinality({i \in 1..(n - 1) : ordered[i + 1].start - ordered[i].end < 30})
        duration == RMin(Num(100), RMul(RDiv(RDiv(total, Num(60)), Num(14)), Num(100)))
        nightRatio == IF RLt(Num(0), total) THEN RMul(Num(100), RDiv(night, total))
                      ELSE Num(0)
        continuity == RMul(RMul(Num(100), RDiv(RSum(weights), Num(n))),
                           RMax(R(1, 2), RSub(Num(1), R(k, 10))))
    IN  Clamp0To100(RAdd(RAdd(RMul(R(4, 10), duration), RMul(R(3, 10), nightRatio)),
                         RMul(R(3, 10), continuity)))

\* C16 as claimed: for every non-empty list of sleep sessions with end times the
\* sleep scorer returns clamp[0,100](0.4 * duration + 0.3 * nightRatio + 0.3 *
\* continuity), with the per-session weights good 1.0, fair 0.7 and anything
\* else 0.4, and the interruptions counted in start-time order
C16_SleepIndexFormula ==
    (/\ Returned
     /\ probe.fn = "calculate_sleep_quality_index"
     /\ probe.sleep_schedule # <<>>
     /\ AllSessionsEnded(probe))
        => probe.ret = Ok(SleepIndexByRule(probe.sleep_schedule))

\* the expected interval of an age band, in minutes
BandIntervalMinutes(baby_age_months) ==
    IF baby_age_months < 1 THEN 120
    ELSE IF baby_age_months < 3 THEN 180
    ELSE IF baby_age_months < 6 THEN 210
    ELSE 240

\* the start times of the feeds, in increasing order
OrderedStarts(feeding_times) ==
    SortByStart([k \in 1..Len(feeding_times) |-> [start |-> feeding_times[k].start_time.at]])

\* two or more feeds, each following the one before it at the expected
\* interval, the last less than 12 hours after the first
RegularFeeds(feeding_times, baby_age_months) ==
    /\ Len(feeding_times) >= 2
    /\ \A i, j \in 1..Len(feeding_times) :
          Comparable(feeding_times[i].start_time, feeding_times[j].start_time)
    /\ \A i \in 1..(Len(feeding_times) - 1) :
          OrderedStarts(feeding_times)[i + 1].start - OrderedStarts(feeding_times)[i].start
              = BandIntervalMinutes(baby_age_months)
    /\ OrderedStarts(feeding_times)[Len(feeding_times)].start
          - OrderedStarts(feeding_times)[1].start < 12 * 60

\* 100 * (0.4 * regularity + 0.3 * 0.7 + 0.3 * durationScore)
ScoreAtRegularity(regularity, feeding_times) ==
    RMul(Num(100),
         RAdd(RAdd(RMul(R(4, 10), regularity), R(21, 100)),
              RMul(R(3, 10),
                   FeedDurationScore([k \in 1..Len(feeding_times) |->
                                         FeedOf(feeding_times[k])]))))

\* C17 as claimed: for two or more feeds at exactly the expected interval of the
\* age band over a span under 12 hours the interval regularity is 1 and the
\* frequency score 0.7, so the score is 100 * (0.4 + 0.21 + 0.3 * durationScore);
\* for a single feed the interval regularity is 0 and the frequency score 0.7
C17_RegularFeedsScore ==
    (Returned /\ probe.fn = "calculate_feeding_efficiency") =>
        /\ RegularFeeds(probe.feeding_times, probe.baby_age_months)
              => probe.ret = Ok(ScoreAtRegularity(Num(1), probe.feeding_times))
        /\ Len(probe.feeding_times) = 1
              => probe.ret = Ok(ScoreAtRegularity(Num(0), probe.feeding_times))

\* the catalog labels at months up to the age
ExpectedUpTo(baby_age_months) ==
    UNION {{expected_milestones[m][k] : k \in 1..Len(expected_milestones[m])} :
           m \in {c \in DOMAIN expected_milestones : c <= baby_age_months}}

\* one label contains the other, the achieved one taken in lower case
Matches(expected, achieved) ==
    In(expected, LowerLabel(achieved)) \/ In(LowerLabel(achieved), expected)

\* 100 * m / n: n the labels expected up to the age, m those of them that match
\* an achieved label
BaseByRule(milestones, baby_age_months) ==
    LET expected == ExpectedUpTo(baby_age_months)
        matched == {e \in expected :
                       \E i \in 1..Len(milestones) : Matches(e, milestones[i].milestone)}
    IN  R(100 * Cardinality(matched), Cardinality(expected))

\* C18: for a non-empty milestone list and an age with a non-empty expected
\* set, the score is the base score 100 * m / n plus the early-achievement
\* bonus, capped at 100, so without a dated entry it is 100 * m / n; labels of
\* catalog months above the age add nothing to it
C18_BaseScoreIsMatchedShare ==
    (/\ Returned
     /\ probe.fn = "calculate_developmental_score"
     /\ probe.milestones # <<>>
     /\ ExpectedUpTo(probe.baby_age_months) # {})
        => /\ probe.ret =
                Ok(RMin(Num(100),
                        RAdd(BaseByRule(probe.milestones, probe.baby_age_months),
                             RSum([k \in 1..Len(probe.milestones) |->
                                      Num(EarlyBonus(probe.milestones[k], probe.baby))]))))
           /\ (\A i \in 1..Len(probe.milestones) :
                   IsNone(probe.milestones[i].achieved_date))
                 => probe.ret = Ok(BaseByRule(probe.milestones, probe.baby_age_months))

\* at three months an undated "rolls", part of a label of month 4 only, and an
\* undated "Laughs", a label of month 3, have scored one label of nine
C18_Witness_LabelAboveAgeAddsNothing ==
    /\ probe.fn = "calculate_developmental_score"
    /\ probe.baby_age_months = 3
    /\ probe.milestones = <<[milestone |-> <<"rolls">>, achieved_date |-> None],
                            [milestone |-> <<"Laughs">>, achieved_date |-> None]>>
    /\ probe.ret = Ok(R(100, 9))

\* an entry is early: it carries a date, and the age at that date is below the
\* first month of the whole catalog that holds a label matching it
EarlyByRule(entry, baby) ==
    /\ ~IsNone(entry.achieved_date)
    /\ \E m \in DOMAIN expected_milestones :
          /\ \E k \in 1..Len(expected_milestones[m]) :
                Matches(expected_milestones[m][k], entry.milestone)
          /\ \A c \in DOMAIN expected_milestones :
                (\E k \in 1..Len(expected_milestones[c]) :
                    Matches(expected_milestones[c][k], entry.milestone)) => m <= c
          /\ calculate_age_in_months(baby.date_of_birth, entry.achieved_date[1]) < m

\* C19: for a non-empty milestone list and an age with a non-empty expected
\* set, the score is min(100, baseScore + 5 * e), e the number of early entries;
\* an entry with no date or matching no catalog label is not early
C19_ScoreIsBasePlusEarlyBonus ==
    (/\ Returned
     /\ probe.fn = "calculate_developmental_score"
     /\ probe.milestones # <<>>
     /\ ExpectedUpTo(probe.baby_age_months) # {})
        => probe.ret =
              Ok(RMin(Num(100),
                      RAdd(BaseByRule(probe.milestones, probe.baby_age_months),
                           Num(5 * Cardinality({i \in 1..Len(probe.milestones) :
                                   EarlyByRule(probe.milestones[i], probe.baby)})))))

\* at three months a laugh dated five days after birth and an undated "walks"
\* have scored one label of nine plus one bonus of 5
C19_Witness_OneEarlyEntry ==
    /\ probe.fn = "calculate_developmental_score"
    /\ probe.baby_age_months = 3
    /\ probe.baby.date_of_birth = <<2024, 1, 20>>
    /\ probe.milestones = <<[milestone |-> <<"Laughs">>,
                             achieved_date |-> Some(<<2024, 1, 25>>)],
                            [milestone |-> <<"walks">>, achieved_date |-> None]>>
    /\ probe.ret = Ok(RAdd(R(100, 9), Num(5)))

-----------------------------------------------------------------------------
(* Properties of the insight aggregator                                    *)

InsightsServed == last.op = "get_baby_insights" /\ last.err = "none"

\* the records of the baby the timeframe selects: those dated at most 7 days
\* (week) or 30 days (month) before today, or all of them
SelectedRecords ==
    LET mine == {i \in DOMAIN progress : progress[i].baby_id = last.id}
        age(i) == Ordinal(Today(now)) - Ordinal(progress[i].record_date)
    IN  IF last.timeframe = "week" THEN {i \in mine : age(i) <= 7}
        ELSE IF last.timeframe = "month" THEN {i \in mine : age(i) <= 30}
        ELSE mine

\* C20: the insights are aggregated over exactly the baby's records dated
\* today - 7 days or later (week), today - 30 days or later (month), or all of
\* them (all), from the earliest to the latest; the response is the no-data
\* message with an empty insights body exactly when there is no such record
C20_InsightsOverTimeframe ==
    InsightsServed =>
        /\ {last.rows[k] : k \in DOMAIN last.rows} = SelectedRecords
        /\ Len(last.rows) = Cardinality(SelectedRecords)
        /\ (last.body.message = Some(NoDataMessage)) <=> (SelectedRecords = {})
        /\ (DOMAIN last.body.insights = {}) <=> (SelectedRecords = {})
        /\ SelectedRecords # {} =>
              /\ last.body.message = None
              /\ last.body.insights.total_records = Cardinality(SelectedRecords)
              /\ \A i \in SelectedRecords :
                    /\ Ordinal(last.body.insights.growth.first_record.date)
                          <= Ordinal(progress[i].record_date)
                    /\ Ordinal(progress[i].record_date)
                          <= Ordinal(last.body.insights.growth.latest_record.date)

\* on 2024-04-19 the insights of the last month cover the record of 2024-03-20,
\* dated exactly 30 days before, as the first of two or more records
C20_Witness_MonthIncludesThirtiethDay ==
    /\ InsightsServed
    /\ Today(now) = <<2024, 4, 19>>
    /\ last.timeframe = "month"
    /\ last.body.message = None
    /\ last.body.insights.total_records >= 2
    /\ last.body.insights.growth.first_record.date = <<2024, 3, 20>>
    /\ progress[last.rows[1]].record_date = <<2024, 3, 20>>

-----------------------------------------------------------------------------
(* Properties of the insights: averages, trends, rates and age             *)

InsightsReported == InsightsServed /\ last.body.message = None

\* the rows the query returned, in its order
ServedRows == [k \in 1..Len(last.rows) |-> progress[last.rows[k]]]

FirstServed == progress[last.rows[1]]

LastServed == progress[last.rows[Len(last.rows)]]

\* the values of a field over the rows that carry one; 0.0 is a value
RECURSIVE PresentValues(_, _)
PresentValues(rows, field) ==
    IF Len(rows) = 0 THEN <<>>
    ELSE (IF IsNone(Head(rows)[field]) THEN <<>> ELSE <<Head(rows)[field]>>)
         \o PresentValues(Tail(rows), field)

MeanOf(values) ==
    IF Len(values) = 0 THEN None ELSE RDiv(RSum(values), Num(Len(values)))

\* C21: each reported average is the mean of its field over the filtered
\* records that carry the field, a 0.0 counting as carried, and is unset
\* exactly when no filtered record carries the field
C21_AverageIsMeanOfPresent ==
    InsightsReported =>
        /\ last.body.insights.growth.average_percentile
              = MeanOf(PresentValues(ServedRows, "growth_percentile"))
        /\ last.body.insights.sleep.average_quality
              = MeanOf(PresentValues(ServedRows, "sleep_quality_index"))
        /\ last.body.insights.feeding.average_efficiency
              = MeanOf(PresentValues(ServedRows, "feeding_efficiency"))
        /\ last.body.insights.development.average_score
              = MeanOf(PresentValues(ServedRows, "developmental_score"))

\* improving, declining or stable by strict comparison of two present values
TrendByRule(first, last_) ==
    IF ~IsNone(first) /\ ~IsNone(last_) /\ RLt(first, last_) THEN "improving"
    ELSE IF ~IsNone(first) /\ ~IsNone(last_) /\ RLt(last_, first) THEN "declining"
    ELSE "stable"

\* C22: the sleep trend and the feeding trend are improving exactly when both
\* endpoint values are present and last > first, declining exactly when both
\* are present and last < first, stable otherwise, 0.0 counting as present
C22_TrendOfEndpoints ==
    InsightsReported =>
        /\ last.body.insights.sleep.trend
              = TrendByRule(FirstServed.sleep_quality_index, LastServed.sleep_quality_index)
        /\ last.body.insights.feeding.trend
              = TrendByRule(FirstServed.feeding_efficiency, LastServed.feeding_efficiency)

\* C23: when the first and the last filtered record carry the same value of a
\* metric, 0.0 included, the trend of the metric is stable
C23_EqualEndpointsAreStable ==
    InsightsReported =>
        /\ (~IsNone(FirstServed.sleep_quality_index)
              /\ FirstServed.sleep_quality_index = LastServed.sleep_quality_index)
           => last.body.insights.sleep.trend = "stable"
        /\ (~IsNone(FirstServed.feeding_efficiency)
              /\ FirstServed.feeding_efficiency = LastServed.feeding_efficiency)
           => last.body.insights.feeding.trend = "stable"
        /\ (~IsNone(FirstServed.developmental_score)
              /\ FirstServed.developmental_score = LastServed.developmental_score)
           => last.body.insights.development.trend = "stable"

DevelopmentTrendByRule(first, last_) ==
    IF IsNone(first) /\ IsNone(last_) THEN "not enough data"
    ELSE IF IsNone(first) THEN "as expected"
    ELSE IF IsNone(last_) THEN "stable"
    ELSE IF RLt(first, last_) THEN "improving"
    ELSE IF RLt(last_, first) THEN "declining"
    ELSE "stable"

\* C24: the development trend is improving or declining by strict comparison
\* of two present endpoint scores, stable when they are equal or only the
\* first is present, as expected exactly when only the last is present, and
\* not enough data exactly when neither is
C24_DevelopmentTrendOfEndpoints ==
    InsightsReported =>
        last.body.insights.development.trend
            = DevelopmentTrendByRule(FirstServed.developmental_score,
                                     LastServed.developmental_score)

\* C26: the reported age is the age rule applied to the birth date and today:
\* the year and month difference, less one when today's day of month is
\* before the birth day, and at least 0
C26_AgeByTheAgeRule ==
    InsightsReported =>
        /\ last.body.insights.baby_age_months
              = calculate_age_in_months(babies[last.id].date_of_birth, Today(now))
        /\ last.body.insights.baby_age_months >= 0

\* the days from the first to the last record served
DaySpan == Ordinal(LastServed.record_date) - Ordinal(FirstServed.record_date)

\* (last - first) / days * scale
ExactRate(first_value, last_value, scale) ==
    RMul(RDiv(RSub(last_value, first_value), Num(DaySpan)), Num(scale))

\* a rate is reported only over two or more records, a positive day span and
\* two present endpoint measurements
RateIsDue(reported, first_value, last_value) ==
    ~IsNone(reported) =>
        /\ Len(last.rows) >= 2
        /\ DaySpan > 0
        /\ ~IsNone(first_value) /\ ~IsNone(last_value)

\* a whole number of tenths at most half a tenth from the exact rate
NearestTenth(reported, exact) ==
    /\ (reported[1] * 10) % reported[2] = 0
    /\ RLe(RAbs(RSub(reported, exact)), R(1, 20))

\* C25, as stated: a reported rate equals (last - first) / days * 7 * 1000 for
\* the weight and (last - first) / days * 30 for the height and the head
\* circumference
C25_RateEqualsExactRate ==
    InsightsReported =>
        /\ RateIsDue(last.body.insights.growth.weight_gain_per_week,
                     FirstServed.weight, LastServed.weight)
        /\ RateIsDue(last.body.insights.growth.height_gain_per_month,
                     FirstServed.height, LastServed.height)
        /\ RateIsDue(last.body.insights.growth.head_circumference_gain_per_month,
                     FirstServed.head_circumference, LastServed.head_circumference)
        /\ ~IsNone(last.body.insights.growth.weight_gain_per_week)
           => last.body.insights.growth.weight_gain_per_week
                 = ExactRate(FirstServed.weight, LastServed.weight, 7 * 1000)
        /\ ~IsNone(last.body.insights.growth.height_gain_per_month)
           => last.body.insights.growth.height_gain_per_month
                 = ExactRate(FirstServed.height, LastServed.height, 30)
        /\ ~IsNone(last.body.insights.growth.head_circumference_gain_per_month)
           => last.body.insights.growth.head_circumference_gain_per_month
                 = ExactRate(FirstServed.head_circumference,
                             LastServed.head_circumference, 30)

\* C25: a gain rate is reported only when two or more filtered records exist,
\* the day span from the first to the last is > 0 and both endpoint
\* measurements are present, so no rate divides by a zero span; a reported
\* rate is (last - first) / days * 7 * 1000 for the weight, and (last - first)
\* / days * 30 for the height and the head circumference, rounded to one
\* decimal place
C25_RateIsRoundedExactRate ==
    InsightsReported =>
        /\ RateIsDue(last.body.insights.growth.weight_gain_per_week,
                     FirstServed.weight, LastServed.weight)
        /\ RateIsDue(last.body.insights.growth.height_gain_per_month,
                     FirstServed.height, LastServed.height)
        /\ RateIsDue(last.body.insights.growth.head_circumference_gain_per_month,
                     FirstServed.head_circumference, LastServed.head_circumference)
        /\ ~IsNone(last.body.insights.growth.weight_gain_per_week)
           => NearestTenth(last.body.insights.growth.weight_gain_per_week,
                           ExactRate(FirstServed.weight, LastServed.weight, 7 * 1000))
        /\ ~IsNone(last.body.insights.growth.height_gain_per_month)
           => NearestTenth(last.body.insights.growth.height_gain_per_month,
                           ExactRate(FirstServed.height, LastServed.height, 30))
        /\ ~IsNone(last.body.insights.growth.head_circumference_gain_per_month)
           => NearestTenth(last.body.insights.growth.head_circumference_gain_per_month,
                           ExactRate(FirstServed.head_circumference,
                                     LastServed.head_circumference, 30))

\* 4.0 kg on 2024-03-20 and 4.2 kg on 2024-04-10: 0.2 / 21 * 7 * 1000 is
\* 66.67 g a week, reported as 66.7; the head circumference rate is exactly 2.0
C25_Witness_RateRoundedUp ==
    /\ InsightsReported
    /\ Len(last.rows) = 2
    /\ DaySpan = 21
    /\ FirstServed.weight = R(40, 10) /\ LastServed.weight = R(42, 10)
    /\ last.body.insights.growth.weight_gain_per_week = R(667, 10)
    /\ last.body.insights.growth.head_circumference_gain_per_month = Num(2)

-----------------------------------------------------------------------------
(* Properties of the endpoints under two parents                           *)

\* the baby is missing or is another parent's
NotTheParent(user, baby_id) ==
    baby_id \notin DOMAIN babies \/ babies[baby_id].parent_id # user

\* C27: every record create_baby_progress stores carries the baby id of the
\* request path, a baby of the acting user, whatever baby id the body carries
C27_StoredUnderPathBaby ==
    [][(probe'.op = "create_baby_progress" /\ last'.err = "none") =>
          /\ progress'[last'.id].baby_id = probe'.baby_id
          /\ ~NotTheParent(probe'.user, progress'[last'.id].baby_id)]_vars

BabyScopedOps ==
    {"create_baby_progress", "get_baby_progress", "get_progress_record",
     "update_progress_record", "delete_progress_record", "get_baby_insights",
     "upload_media", "get_baby_media", "get_media_item", "update_media_item",
     "delete_media_item"}

\* C29: a progress, insights or media request for a baby that is missing or
\* is another parent's ends with the not-found error, returns no data and
\* leaves the babies, the progress records, the media items and the stored
\* objects as they were
C29_ForeignBabyIsNotFound ==
    [][(probe'.op \in BabyScopedOps /\ NotTheParent(probe'.user, probe'.baby_id)) =>
          /\ last'.err = "404"
          /\ "body" \notin DOMAIN last'
          /\ UNCHANGED <<babies, progress, media, objects>>]_vars

\* a parent asked to delete the media item of the other parent's baby and got
\* the not-found error
C29_Witness_ForeignMediaDelete ==
    /\ probe.op = "delete_media_item"
    /\ probe.baby_id \in DOMAIN babies
    /\ babies[probe.baby_id].parent_id # probe.user
    /\ \E i \in DOMAIN media : media[i].baby_id = probe.baby_id /\ last.id = i
    /\ last.err = "404"

\* C30: the media item rows and the stored objects correspond one to one:
\* every row's key is a stored object, every stored object is the key of a
\* row, and no two rows share a key
C30_RowsMatchObjects ==
    /\ {media[i].s3_key : i \in DOMAIN media} = objects
    /\ \A i, j \in DOMAIN media : media[i].s3_key = media[j].s3_key => i = j

\* C28: of two concurrent create_baby_progress requests for one baby and one
\* record date, at most one stores a record, and when both have ended the
\* other was rejected with the already-exists error
C28_OneOfTwoStores ==
    probe[1].progress_in.record_date = probe[2].progress_in.record_date =>
        /\ ~(probe[1].pc = "stored" /\ probe[2].pc = "stored")
        /\ (probe[1].pc \notin {"start", "checked"} /\ probe[2].pc \notin {"start", "checked"})
           => {probe[1].pc, probe[2].pc} = {"stored", "400"}

====
